---- MODULE Spec2Model ----
(***************************************************************************)
(* A model of ripple-lib's Amount (src/unnamed/part_001, amount.js).       *)
(*                                                                         *)
(* The decimal engine (Value, IOUValue, XRPValue), Currency and UInt160    *)
(* are required by amount.js but their files are not part of the sources   *)
(* at hand; they are modelled from the specification's sections 3 and 4.   *)
(* Decimals are exact: a mantissa is a sequence of decimal digits, so the  *)
(* 16-digit limits of amount.js are represented as written.                *)
(***************************************************************************)
EXTENDS Integers, Sequences, FiniteSets, TLC

(***************************************************************************)
(* Natural numbers as big-endian digit sequences without leading zeros;    *)
(* the empty sequence is zero.                                             *)
(***************************************************************************)
\* const v = ...; F: the statements that follow, with v bound to its value
With(v, F(_)) == CHOOSE r \in {F(x) : x \in {v}} : TRUE

Zeros(n) == [i \in 1..n |-> 0]

\* s without its leading zeros
NStrip(s) ==
  IF \A i \in DOMAIN s : s[i] = 0 THEN <<>>
  ELSE SubSeq(s, CHOOSE i \in DOMAIN s : s[i] # 0 /\ \A j \in 1..(i - 1) : s[j] = 0, Len(s))

\* -1, 0, 1: the order of equally long a and b, decided at the first digit
\* in which they differ
LexCmp(a, b) ==
  IF a = b THEN 0
  ELSE With(CHOOSE i \in DOMAIN a : a[i] # b[i] /\ \A j \in 1..(i - 1) : a[j] = b[j],
            LAMBDA i : IF a[i] < b[i] THEN -1 ELSE 1)

NCmp(a, b) == IF Len(a) < Len(b) THEN -1
              ELSE IF Len(a) > Len(b) THEN 1
              ELSE LexCmp(a, b)

\* <<carry out>> \o digits of a + b + c, for equally long a and b: the low
\* half is added first and its carry goes into the high half
RECURSIVE AddCarry(_, _, _)
AddCarry(a, b, c) ==
  IF a = <<>> THEN <<c>>
  ELSE IF Len(a) = 1
  THEN LET t == a[1] + b[1] + c IN <<t \div 10, t % 10>>
  ELSE With(AddCarry(SubSeq(a, Len(a) \div 2 + 1, Len(a)), SubSeq(b, Len(a) \div 2 + 1, Len(a)), c),
            LAMBDA lo : AddCarry(SubSeq(a, 1, Len(a) \div 2), SubSeq(b, 1, Len(a) \div 2), lo[1])
                          \o Tail(lo))

NAdd(a, b) ==
  With(IF Len(a) > Len(b) THEN Len(a) ELSE Len(b),
       LAMBDA n : NStrip(AddCarry(Zeros(n - Len(a)) \o a, Zeros(n - Len(b)) \o b, 0)))

\* <<borrow out>> \o digits of a - b - c, for equally long a and b
RECURSIVE SubBorrow(_, _, _)
SubBorrow(a, b, c) ==
  IF a = <<>> THEN <<c>>
  ELSE IF Len(a) = 1
  THEN LET t == a[1] - b[1] - c IN <<IF t < 0 THEN 1 ELSE 0, (t + 10) % 10>>
  ELSE With(SubBorrow(SubSeq(a, Len(a) \div 2 + 1, Len(a)), SubSeq(b, Len(a) \div 2 + 1, Len(a)), c),
            LAMBDA lo : SubBorrow(SubSeq(a, 1, Len(a) \div 2), SubSeq(b, 1, Len(a) \div 2), lo[1])
                          \o Tail(lo))

\* a - b, for a >= b
NSub(a, b) == NStrip(Tail(SubBorrow(a, Zeros(Len(a) - Len(b)) \o b, 0)))

\* <<carry out>> \o digits of a * d + c, for a digit d
RECURSIVE MulCarry(_, _, _)
MulCarry(a, d, c) ==
  IF a = <<>> THEN <<c>>
  ELSE IF Len(a) = 1
  THEN LET t == a[1] * d + c IN <<t \div 10, t % 10>>
  ELSE With(MulCarry(SubSeq(a, Len(a) \div 2 + 1, Len(a)), d, c),
            LAMBDA lo : MulCarry(SubSeq(a, 1, Len(a) \div 2), d, lo[1]) \o Tail(lo))

NMulDigit(a, d) == NStrip(MulCarry(a, d, 0))

\* a * 10^k
NShift(a, k) == IF a = <<>> THEN <<>> ELSE a \o Zeros(k)

RECURSIVE NMul(_, _)
NMul(a, b) ==
  IF b = <<>> \/ a = <<>> THEN <<>>
  ELSE With(NMul(a, SubSeq(b, 1, Len(b) - 1)),
            LAMBDA p : NAdd(NShift(p, 1), NMulDigit(a, b[Len(b)])))

\* the largest digit q with q * b <= r (for r < 10 * b)
QuoDigit(r, b) ==
  CHOOSE q \in 0..9 : /\ NCmp(NMulDigit(b, q), r) <= 0
                      /\ (q = 9 \/ NCmp(NMulDigit(b, q + 1), r) > 0)

\* long division: <<quotient digits, remainder>> of (r, then the digits of
\* a) by b (b > 0): the left half of a is divided first and its remainder
\* goes into the right half
RECURSIVE DivRec(_, _, _)
DivRec(a, b, r) ==
  IF a = <<>> THEN <<(<<>>), r>>
  ELSE IF Len(a) = 1
  THEN With(NStrip(r \o a),
            LAMBDA r1 :
              With(QuoDigit(r1, b),
                   LAMBDA d : <<(<<d>>), NSub(r1, NMulDigit(b, d))>>))
  ELSE With(DivRec(SubSeq(a, 1, Len(a) \div 2), b, r),
            LAMBDA hi :
              With(DivRec(SubSeq(a, Len(a) \div 2 + 1, Len(a)), b, hi[2]),
                   LAMBDA lo : <<hi[1] \o lo[1], lo[2]>>))

NDivMod(a, b) == With(DivRec(a, b, <<>>), LAMBDA x : <<NStrip(x[1]), x[2]>>)

\* number of trailing zero digits
TrailZeros(s) ==
  IF \A i \in DOMAIN s : s[i] = 0 THEN Len(s)
  ELSE Len(s) - (CHOOSE i \in DOMAIN s : s[i] # 0 /\ \A j \in (i + 1)..Len(s) : s[j] = 0)

(***************************************************************************)
(* Strings are sequences of one-character strings.                         *)
(***************************************************************************)
DigitChars == <<"0", "1", "2", "3", "4", "5", "6", "7", "8", "9">>
LowerChars == <<"a", "b", "c", "d", "e", "f", "g", "h", "i", "j", "k", "l", "m",
                "n", "o", "p", "q", "r", "s", "t", "u", "v", "w", "x", "y", "z">>
UpperChars == <<"A", "B", "C", "D", "E", "F", "G", "H", "I", "J", "K", "L", "M",
                "N", "O", "P", "Q", "R", "S", "T", "U", "V", "W", "X", "Y", "Z">>

Range(f) == {f[i] : i \in DOMAIN f}
IndexOf(seq, c) == CHOOSE i \in DOMAIN seq : seq[i] = c

IsDigit(c) == c \in Range(DigitChars)
IsAlpha(c) == c \in Range(LowerChars) \cup Range(UpperChars)
IsHexChar(c) == IsDigit(c) \/ c \in {"a", "b", "c", "d", "e", "f", "A", "B", "C", "D", "E", "F"}
DigitVal(c) == IndexOf(DigitChars, c) - 1

AllChars(s, P(_)) == \A i \in DOMAIN s : P(s[i])

\* String.prototype.toUpperCase
ToUpperChar(c) == IF c \in Range(LowerChars) THEN UpperChars[IndexOf(LowerChars, c)] ELSE c
ToUpperCase(s) == [i \in DOMAIN s |-> ToUpperChar(s[i])]

\* the positions of character c in s
Positions(s, c) == {i \in DOMAIN s : s[i] = c}
Min(S) == CHOOSE x \in S : \A y \in S : x <= y

\* String.prototype.split(c), for a one-character separator
RECURSIVE Split(_, _)
Split(s, c) ==
  IF Positions(s, c) = {} THEN <<s>>
  ELSE LET p == Min(Positions(s, c))
       IN  <<SubSeq(s, 1, p - 1)>> \o Split(SubSeq(s, p + 1, Len(s)), c)

\* a small decimal integer written in digits
RECURSIVE SmallInt(_)
SmallInt(s) == IF s = <<>> THEN 0 ELSE 10 * SmallInt(SubSeq(s, 1, Len(s) - 1)) + DigitVal(s[Len(s)])

(***************************************************************************)
(* The decimal engine (specification 3, 4.1): a decimal is NaN or          *)
(* (-1)^neg * man * 10^exp, kept without trailing zeros in man.            *)
(***************************************************************************)
BNaN == [nan |-> TRUE, neg |-> FALSE, man |-> <<>>, exp |-> 0]

BN(neg, man, exp) ==
  With(NStrip(man),
       LAMBDA m :
         IF m = <<>> THEN [nan |-> FALSE, neg |-> neg, man |-> <<>>, exp |-> 0]
         ELSE With(TrailZeros(m),
                   LAMBDA z : [nan |-> FALSE, neg |-> neg,
                               man |-> SubSeq(m, 1, Len(m) - z), exp |-> exp + z]))

BIsZero(x) == ~x.nan /\ x.man = <<>>

\* the mantissa of x rewritten at the (smaller or equal) exponent e
ManAt(x, e) == NShift(x.man, x.exp - e)

\* -1, 0, 1: the order of |x| and |y|
BCmpAbs(x, y) ==
  LET e == IF x.exp < y.exp THEN x.exp ELSE y.exp
  IN  NCmp(ManAt(x, e), ManAt(y, e))

\* -1, 0, 1: the order of x and y (neither NaN; -0 = 0)
BCmp(x, y) ==
  IF BIsZero(x) /\ BIsZero(y) THEN 0
  ELSE IF BIsZero(x) THEN (IF y.neg THEN 1 ELSE -1)
  ELSE IF BIsZero(y) THEN (IF x.neg THEN -1 ELSE 1)
  ELSE IF x.neg # y.neg THEN (IF x.neg THEN -1 ELSE 1)
  ELSE IF x.neg THEN 0 - BCmpAbs(x, y) ELSE BCmpAbs(x, y)

BPlus(x, y) ==
  IF x.nan \/ y.nan THEN BNaN
  ELSE With(IF x.exp < y.exp THEN x.exp ELSE y.exp,
            LAMBDA e :
              With(<<ManAt(x, e), ManAt(y, e)>>,
                   LAMBDA m :
                     IF x.neg = y.neg THEN BN(x.neg, NAdd(m[1], m[2]), e)
                     ELSE IF NCmp(m[1], m[2]) >= 0
                     THEN BN(x.neg /\ NCmp(m[1], m[2]) # 0, NSub(m[1], m[2]), e)
                     ELSE BN(y.neg, NSub(m[2], m[1]), e)))

BTimes(x, y) ==
  IF x.nan \/ y.nan THEN BNaN
  ELSE BN(x.neg # y.neg, NMul(x.man, y.man), x.exp + y.exp)

\* x cut toward zero to k decimal places
BTruncPlaces(x, k) ==
  IF x.nan \/ x.exp >= 0 - k THEN x
  ELSE LET drop == (0 - k) - x.exp
       IN  IF drop >= Len(x.man) THEN BN(x.neg, <<>>, 0)
           ELSE BN(x.neg, SubSeq(x.man, 1, Len(x.man) - drop), 0 - k)

\* x cut toward zero to n significant digits
BTruncSig(x, n) ==
  IF x.nan \/ Len(x.man) <= n THEN x
  ELSE BN(x.neg, SubSeq(x.man, 1, n), x.exp + (Len(x.man) - n))

\* x / y cut toward zero to k decimal places (y not zero)
BDivPlaces(x, y, k) ==
  LET s   == x.exp - y.exp + k
      num == IF s >= 0 THEN NShift(x.man, s) ELSE x.man
      den == IF s >= 0 THEN y.man ELSE NShift(y.man, 0 - s)
  IN  BN(x.neg # y.neg, NDivMod(num, den)[1], 0 - k)

\* x / y cut toward zero to n significant digits; a zero divisor gives NaN
BDivSig(x, y, n) ==
  IF x.nan \/ y.nan \/ BIsZero(y) THEN BNaN
  ELSE IF BIsZero(x) THEN BN(x.neg # y.neg, <<>>, 0)
  ELSE LET k == (n + 1) - (Len(x.man) + x.exp) + (Len(y.man) + y.exp)
       IN  BTruncSig(BDivPlaces(x, y, k), n)

\* a decimal literal: -?(d+(.d*)?|.d+)(e[+-]?d+)?  ; anything else is NaN
ParseExp(s) ==
  IF s = <<>> THEN [ok |-> FALSE, v |-> 0]
  ELSE LET neg == Head(s) = "-"
           ds  == IF Head(s) \in {"-", "+"} THEN Tail(s) ELSE s
       IN  IF ds = <<>> \/ ~AllChars(ds, IsDigit) THEN [ok |-> FALSE, v |-> 0]
           ELSE [ok |-> TRUE, v |-> IF neg THEN 0 - SmallInt(ds) ELSE SmallInt(ds)]

ParseDec(s) ==
  IF s = <<>> THEN BNaN
  ELSE With(Split(ToUpperCase(IF Head(s) = "-" THEN Tail(s) ELSE s), "E"),
            LAMBDA eparts :
              IF Len(eparts) > 2 THEN BNaN
              ELSE With(<<Split(eparts[1], "."),
                          IF Len(eparts) = 1 THEN [ok |-> TRUE, v |-> 0] ELSE ParseExp(eparts[2])>>,
                        LAMBDA p :
                          IF Len(p[1]) > 2 \/ ~p[2].ok THEN BNaN
                          ELSE With(p[1][1] \o (IF Len(p[1]) = 2 THEN p[1][2] ELSE <<>>),
                                    LAMBDA ds :
                                      IF ds # <<>> /\ AllChars(ds, IsDigit)
                                      THEN BN(Head(s) = "-",
                                              [i \in DOMAIN ds |-> DigitVal(ds[i])],
                                              p[2].v - (Len(ds) - Len(p[1][1])))
                                      ELSE BNaN)))


\* the decimal digits of a small natural number, as characters
RECURSIVE NatChars(_)
NatChars(k) == IF k < 10 THEN <<DigitChars[k + 1]>>
               ELSE NatChars(k \div 10) \o <<DigitChars[(k % 10) + 1]>>

\* String(k) of a small integer
IntText(k) == IF k < 0 THEN <<"-">> \o NatChars(0 - k) ELSE NatChars(k)

DigitText(m) == [i \in DOMAIN m |-> DigitChars[m[i] + 1]]

\* toString: plain digits, or d.ddde+x when the exponent of the first digit
\* is at most -7 or at least 21
BToString(x) ==
  IF x.nan THEN <<"N", "a", "N">>
  ELSE IF x.man = <<>> THEN <<"0">>
  ELSE With(Len(x.man) + x.exp - 1,
            LAMBDA e :
              (IF x.neg THEN <<"-">> ELSE <<>>) \o
              (IF e <= 0 - 7 \/ e >= 21
               THEN <<DigitChars[x.man[1] + 1]>>
                      \o (IF Len(x.man) > 1 THEN <<".">> \o DigitText(Tail(x.man)) ELSE <<>>)
                      \o <<"e">> \o (IF e < 0 THEN <<>> ELSE <<"+">>) \o IntText(e)
               ELSE IF x.exp >= 0 THEN DigitText(x.man \o Zeros(x.exp))
               ELSE IF e >= 0
               THEN DigitText(SubSeq(x.man, 1, e + 1)) \o <<".">>
                      \o DigitText(SubSeq(x.man, e + 2, Len(x.man)))
               ELSE <<"0", ".">> \o DigitText(Zeros((0 - e) - 1) \o x.man)))

HexChars == <<"0", "1", "2", "3", "4", "5", "6", "7", "8", "9", "A", "B", "C", "D", "E", "F">>
HexVal(c) == IndexOf(HexChars, ToUpperChar(c)) - 1

\* the number a string of hex digits denotes
RECURSIVE HexToNat(_)
HexToNat(s) ==
  IF s = <<>> THEN <<>>
  ELSE With(HexToNat(SubSeq(s, 1, Len(s) - 1)),
            LAMBDA hi : NAdd(NMul(hi, <<1, 6>>),
                             NStrip(<<HexVal(s[Len(s)]) \div 10, HexVal(s[Len(s)]) % 10>>)))

(***************************************************************************)
(* Value, IOUValue, XRPValue (specification 3, 4.1, 4.2).  A Value object  *)
(* is [cls, n]: its class and its decimal.  An XRPValue counts XRP (1 XRP  *)
(* = 10^6 drops) to 6 decimal places; an IOUValue keeps 16 significant     *)
(* digits.  Both cut toward zero.  The range of a value is not the         *)
(* engine's concern here: amount.js checks it in _check_limits.            *)
(***************************************************************************)
SigDigits == 16
xns_precision == 6

IOUValue(n) == [cls |-> "IOUValue", n |-> BTruncSig(n, SigDigits)]
XRPValue(n) == [cls |-> "XRPValue", n |-> BTruncPlaces(n, xns_precision)]

IsValueObj(x) == x.cls \in {"IOUValue", "XRPValue"}

\* Value._canonicalize: the result of an operation takes the receiver's class
Canonicalize(cls, n) == IF cls = "IOUValue" THEN IOUValue(n) ELSE XRPValue(n)

TenTo(k) == BN(FALSE, <<1>>, k)

\* an XRPValue operand of multiply and divide is counted in drops
InDrops(y) == IF y.cls = "XRPValue" THEN BTimes(y.n, TenTo(xns_precision)) ELSE y.n

V_isNaN(x) == x.n.nan
V_isZero(x) == BIsZero(x.n)
V_isNegative(x) == ~x.n.nan /\ x.n.neg
V_negate(x) == IF x.n.nan THEN x ELSE [x EXCEPT !.n.neg = ~x.n.neg]
V_abs(x) == Canonicalize(x.cls, IF x.n.nan THEN x.n ELSE [x.n EXCEPT !.neg = FALSE])
V_add(x, y) == Canonicalize(x.cls, BPlus(x.n, y.n))
V_multiply(x, y) == Canonicalize(x.cls, BTimes(x.n, InDrops(y)))

V_divide(x, y) ==
  With(InDrops(y),
       LAMBDA d :
         IF x.cls = "IOUValue" THEN IOUValue(BDivSig(x.n, d, SigDigits))
         ELSE IF x.n.nan \/ d.nan \/ BIsZero(d) THEN XRPValue(BNaN)
         ELSE IF BIsZero(x.n) THEN XRPValue(BN(x.n.neg # d.neg, <<>>, 0))
         ELSE XRPValue(BDivPlaces(x.n, d, xns_precision)))

V_invert(x) == V_divide([cls |-> x.cls, n |-> TenTo(0)], [cls |-> "IOUValue", n |-> x.n])

\* getExponent: the exponent of the first digit
V_getExponent(x) == IF x.n.man = <<>> THEN 0 ELSE Len(x.n.man) + x.n.exp - 1

V_equals(x, y) == ~x.n.nan /\ ~y.n.nan /\ BCmp(x.n, y.n) = 0
V_greaterThan(x, y) == ~x.n.nan /\ ~y.n.nan /\ BCmp(x.n, y.n) > 0
V_lessThan(x, y) == ~x.n.nan /\ ~y.n.nan /\ BCmp(x.n, y.n) < 0

V_comparedTo(x, y) ==
  IF x.n.nan \/ y.n.nan THEN [cls |-> "number", s |-> <<"N", "a", "N">>]
  ELSE With(BCmp(x.n, y.n),
            LAMBDA c : [cls |-> "number",
                        s |-> CASE c = 0 -> <<"0">> [] c > 0 -> <<"1">> [] OTHER -> <<"-", "1">>])

(***************************************************************************)
(* JavaScript values.  Every value is a record with its class in cls:      *)
(* "string" and "number" carry their text in s (a number: its String()),   *)
(* "object" is a plain object with the own properties named in own.        *)
(***************************************************************************)
Str(s) == [cls |-> "string", s |-> s]
Num(s) == [cls |-> "number", s |-> s]
Undefined == [cls |-> "undefined"]
Null == [cls |-> "null"]
Bool(b) == [cls |-> "boolean", b |-> b]
\* {value: v, currency: c, issuer: i}
Obj(v, c, i) == [cls |-> "object", own |-> {"value", "currency", "issuer"},
                 value |-> v, currency |-> c, issuer |-> i]
\* {currency: c}
ObjNoValue(c) == [cls |-> "object", own |-> {"currency"},
                  value |-> Undefined, currency |-> c, issuer |-> Undefined]

TypeOf(j) == IF j.cls \in {"string", "number", "undefined", "boolean"} THEN j.cls ELSE "object"

\* isNaN(j) and isFinite(j) of a string or number: its numeric reading
IsNumeric(j) == j.cls \in {"string", "number"} /\ ~ParseDec(j.s).nan

\* new BigNumber(j)
ToBigNumber(j) == IF j.cls \in {"string", "number"} THEN ParseDec(j.s) ELSE BNaN

(***************************************************************************)
(* Currency (specification 3, 4.4): the native sentinel, a 3-character     *)
(* code, a 160-bit code in 40 hex digits (with interest when its type byte *)
(* is 01), the reserved code one, or invalid.                              *)
(***************************************************************************)
XRPCode == <<"X", "R", "P">>

NewCurrency == [kind |-> "nan", code |-> <<>>]
NativeCurrency == [kind |-> "native", code |-> XRPCode]

IsNativeCode(s) ==
  \/ ToUpperCase(s) = XRPCode
  \/ s = <<"0">>
  \/ (Len(s) = 40 /\ \A i \in DOMAIN s : s[i] = "0")

\* Currency.parse_json(j, shouldInterpretXrpAsIou)
Currency_parse_json(j, never_xrp) ==
  IF j.cls \notin {"string", "number"} THEN NewCurrency
  ELSE IF IsNativeCode(j.s)
       THEN (IF never_xrp THEN [kind |-> "iso", code |-> XRPCode] ELSE NativeCurrency)
  ELSE IF j.s = <<"1">> THEN [kind |-> "one", code |-> <<"1">>]
  ELSE IF Len(j.s) = 3 /\ AllChars(j.s, LAMBDA c : IsAlpha(c) \/ IsDigit(c))
       THEN [kind |-> "iso", code |-> ToUpperCase(j.s)]
  ELSE IF Len(j.s) = 40 /\ AllChars(j.s, IsHexChar)
       THEN (IF j.s = [i \in 1..40 |-> IF i = 40 THEN "1" ELSE "0"]
             THEN [kind |-> "one", code |-> <<"1">>]
             ELSE [kind |-> "hex", code |-> ToUpperCase(j.s)])
  ELSE NewCurrency

Currency_from_json(j) == Currency_parse_json(j, FALSE)
Currency_is_native(c) == c.kind = "native"
Currency_is_valid(c) == c.kind # "nan"
Currency_has_interest(c) == c.kind = "hex" /\ SubSeq(c.code, 1, 2) = <<"0", "1">>
Currency_equals(c, d) == Currency_is_valid(c) /\ Currency_is_valid(d) /\ c = d

\* to_hex of a 160-bit code
Currency_to_hex(c) == c.code

\* to_json: the 3-character code, XRP for the native and for an invalid
\* currency, 40 hex digits for every other code
Currency_to_json(c) ==
  CASE c.kind \in {"native", "nan"} -> XRPCode
    [] c.kind = "one" -> [i \in 1..40 |-> IF i = 40 THEN "1" ELSE "0"]
    [] OTHER -> c.code

(***************************************************************************)
(* UInt160 (specification 3, 4.3): a 160-bit value with a validity flag.   *)
(* Zero is the native sentinel, one the "no issuer" placeholder.  Which    *)
(* strings decode as an address (base-58 with checksum) is given by        *)
(* ValidAddresses.                                                         *)
(***************************************************************************)
ValidAddresses == { <<"r", "A">>, <<"r", "B">> }

\* the addresses of the values zero and one
ACCOUNT_ZERO == <<"r", "r", "r", "r", "r", "r", "r", "r", "r", "r", "r", "r", "r", "r", "r", "r", "r", "r", "r", "r", "r", "h", "o", "L", "v", "T", "p">>
ACCOUNT_ONE == <<"r", "r", "r", "r", "r", "r", "r", "r", "r", "r", "r", "r", "r", "r", "r", "r", "r", "r", "r", "r", "B", "Z", "b", "v", "j", "i">>

NewUInt160 == [kind |-> "nan", addr |-> <<>>]
UInt160Zero == [kind |-> "zero", addr |-> <<"0">>]
UInt160One == [kind |-> "one", addr |-> <<"1">>]

UInt160_from_json(j) ==
  IF j.cls \notin {"string", "number"} THEN NewUInt160
  ELSE IF j.s = <<"0">> \/ (j.cls = "string" /\ j.s = ACCOUNT_ZERO) THEN UInt160Zero
  ELSE IF j.s = <<"1">> \/ (j.cls = "string" /\ j.s = ACCOUNT_ONE) THEN UInt160One
  ELSE IF j.cls = "string" /\ j.s \in ValidAddresses THEN [kind |-> "account", addr |-> j.s]
  ELSE NewUInt160

UInt160_is_valid(u) == u.kind # "nan"
UInt160_is_zero(u) == u.kind = "zero"
UInt160_equals(u, w) == UInt160_is_valid(u) /\ UInt160_is_valid(w) /\ u = w

\* to_json of a valid UInt160: its address
UInt160_to_json(u) ==
  CASE u.kind = "zero" -> ACCOUNT_ZERO
    [] u.kind = "one" -> ACCOUNT_ONE
    [] OTHER -> u.addr


(***************************************************************************)
(* The state: two program variables a and b that hold Amount objects, the  *)
(* process-wide flag Amount.strict_mode, and a record of the last call.    *)
(* The operations of this section take and give Amounts as values; which   *)
(* objects an Amount shares with another is followed in section Objects.   *)
(***************************************************************************)
VARIABLES
  am,           \* am[s]: the Amount object program variable s refers to
  strict_mode,  \* Amount.strict_mode
  lax_seen,     \* strict_mode has been false at some point
  last,         \* the last call: its name, operands as they were, and outcome
  ncalls,       \* calls of operations made so far
  heap,         \* the objects made so far, where object identity is followed
  seed,         \* a Seed object: its _value and _type
  remote,       \* the remote of an API object: its server, _stand_alone, _ledger_current_index
  now           \* Date.now(), in milliseconds

vars == <<am, strict_mode, lax_seen, last, ncalls, heap, seed, remote, now>>

\* the variables of the Amounts, and the others
AmountVars == <<am, strict_mode, lax_seen, heap>>
OtherVars == <<seed, remote, now>>

(***************************************************************************)
(* amount.js.  A call returns Ok(v) or throws: Throw(e).                   *)
(***************************************************************************)
Ok(v) == [t |-> "ok", v |-> v]
Throw(e) == [t |-> "throw", e |-> e]
IsOk(r) == r.t = "ok"

\* the statements F after a call with outcome r: an exception propagates
Then(r, F(_)) == IF IsOk(r) THEN F(r.v) ELSE r

\* function Amount(value = new XRPValue(NaN)): assert(value instanceof Value)
Amount_new(value) ==
  IF IsValueObj(value)
  THEN Ok([cls |-> "Amount", value |-> value, is_native |-> TRUE,
           currency |-> NewCurrency, issuer |-> NewUInt160])
  ELSE Throw("AssertionError")

\* new Amount()
NewAmount == Amount_new(XRPValue(BNaN)).v

MAX_XRP_VALUE == XRPValue(TenTo(11))
MAX_IOU_VALUE == IOUValue(BN(FALSE, <<9, 9, 9, 9, 9, 9, 9, 9, 9, 9, 9, 9, 9, 9, 9, 9>>, 80))
MIN_IOU_VALUE == IOUValue(BN(FALSE, <<1, 0, 0, 0, 0, 0, 0, 0, 0, 0, 0, 0, 0, 0, 0, 0>>, 0 - 96))
bi_xns_unit == IOUValue(TenTo(6))

is_valid(a) == ~V_isNaN(a.value)
is_zero(a) == V_isZero(a.value)
is_negative(a) == V_isNegative(a.value)
is_native(a) == a.is_native

\* a comparability test that forgets the kinds
is_comparable_by_validity(a, v) == is_valid(a) /\ is_valid(v)

\* True if Amounts are valid and both native or non-native.
is_comparable(a, v) == is_valid(a) /\ is_valid(v) /\ a.is_native = v.is_native

\* a limit check that rejects the limits themselves
CheckLimitsExclusive(a) ==
  IF ~strict_mode THEN Ok(a)
  ELSE IF V_isNaN(a.value) \/ V_isZero(a.value) THEN Ok(a)
  ELSE With(V_abs(a.value),
            LAMBDA absval :
              IF a.is_native
              THEN (IF ~V_lessThan(absval, MAX_XRP_VALUE)
                    THEN Throw("Exceeding max value") ELSE Ok(a))
              ELSE IF ~V_greaterThan(absval, MIN_IOU_VALUE) THEN Throw("Exceeding min value")
              ELSE IF ~V_lessThan(absval, MAX_IOU_VALUE) THEN Throw("Exceeding max value")
              ELSE Ok(a))

CheckLimits(a) ==
  IF ~strict_mode THEN Ok(a)
  ELSE IF V_isNaN(a.value) \/ V_isZero(a.value) THEN Ok(a)
  ELSE With(V_abs(a.value),
            LAMBDA absval :
              IF a.is_native
              THEN (IF V_greaterThan(absval, MAX_XRP_VALUE)
                    THEN Throw("Exceeding max value") ELSE Ok(a))
              ELSE IF V_lessThan(absval, MIN_IOU_VALUE) THEN Throw("Exceeding min value")
              ELSE IF V_greaterThan(absval, MAX_IOU_VALUE) THEN Throw("Exceeding max value")
              ELSE Ok(a))

\* _set_value(value): value.isZero is no function unless value is a Value
SetValue(a, value) ==
  IF ~IsValueObj(value) THEN Throw("TypeError")
  ELSE CheckLimits([a EXCEPT !.value =
                      IF V_isZero(value) /\ V_isNegative(value) THEN V_negate(value) ELSE value])

\* this.copyTo(d, negate)
CopyTo(a, d, negate) ==
  [d EXCEPT !.value = IF negate THEN V_negate(a.value) ELSE a.value,
            !.is_native = a.is_native,
            !.currency = a.currency,
            !.issuer = a.issuer]

Clone(a, negate) == CopyTo(a, NewAmount, negate)

\* this._copy(value)
Copy(a, value) == SetValue(Clone(a, FALSE), value)

Negate(a) == Clone(a, TRUE)

Abs(a) == Copy(a, V_abs(a.value))

\* this.clone()._invert()
Invert(a) == SetValue(Clone(a, FALSE), V_invert(a.value))

\* Parse a non-native value for the json wire format.
ParseValue(a, j) ==
  SetValue([a EXCEPT !.is_native = FALSE], IOUValue(ToBigNumber(j)))

\* Parse a XRP value from untrusted input.
ParseNative(a, j) ==
  IF j.cls = "string" /\ j.s # <<>> /\ IsNumeric(j)
  THEN IF Positions(j.s, ".") # {}
       THEN Throw("Native amounts must be specified in integer drops")
       ELSE SetValue([a EXCEPT !.is_native = TRUE],
                     V_divide(XRPValue(ToBigNumber(j)), bi_xns_unit))
  ELSE SetValue(a, IOUValue(BNaN))

MatchSlashes(s) ==
  With(Split(s, "/"),
       LAMBDA parts :
         With(IF Len(parts) >= 3
              THEN SubSeq(s, Len(parts[1]) + Len(parts[2]) + 3, Len(s)) ELSE <<>>,
              LAMBDA rest :
                IF /\ Len(parts) >= 2
                   /\ parts[1] # <<>> /\ parts[2] # <<>>
                   /\ (Len(parts) = 2 \/ rest # <<>>)
                THEN <<parts[1], parts[2], rest>>
                ELSE <<>>))

ParseJsonString(a, s) ==
  With(MatchSlashes(s),
       LAMBDA m :
         IF m # <<>>
         THEN ParseValue([a EXCEPT !.currency = Currency_from_json(Str(m[2])),
                                   !.issuer = UInt160_from_json(Str(IF m[3] # <<>> THEN m[3]
                                                                    ELSE <<"1">>))],
                         Str(m[1]))
         ELSE Then(ParseNative(a, Str(s)),
                   LAMBDA r : Ok([r EXCEPT !.currency = Currency_from_json(Str(<<"0">>)),
                                           !.issuer = UInt160_from_json(Str(<<"0">>))])))

ParseJson(a, j) ==
  CASE TypeOf(j) \in {"string", "number"} -> ParseJsonString(a, j.s)
    [] TypeOf(j) = "object" ->
         IF j.cls = "null" THEN Ok(a)
         ELSE IF j.cls = "Amount" THEN Ok(CopyTo(j, a, FALSE))
         ELSE IF j.cls = "object" /\ "value" \in j.own
         THEN ParseValue([a EXCEPT !.currency = Currency_parse_json(j.currency, TRUE),
                                   !.issuer = IF TypeOf(j.issuer) = "string"
                                              THEN UInt160_from_json(j.issuer)
                                              ELSE a.issuer],
                         j.value)
         ELSE Ok(a)
    [] OTHER -> SetValue(a, IOUValue(BNaN))

FromJson(j) == ParseJson(NewAmount, j)

ParseNumber(a, n) ==
  SetValue([a EXCEPT !.is_native = FALSE,
                     !.currency = Currency_from_json(Num(<<"1">>)),
                     !.issuer = UInt160_from_json(Num(<<"1">>))],
           IOUValue(ToBigNumber(n)))

FromNumber(n) == ParseNumber(NewAmount, n)

SetCurrency(a, c) ==
  With(Currency_from_json(c),
       LAMBDA cu : [a EXCEPT !.currency = cu, !.is_native = Currency_is_native(cu)])


\* options of the human operations: reference_date is undefined or a date,
\* and a date stands for the interest factor get_interest_at gives at it
NoOpts == [reference_date |-> Undefined]
AtDate(factor) == [reference_date |-> [cls |-> "date", factor |-> factor]]
HasDate(opts) == opts.reference_date.cls = "date"
Currency_get_interest_at(c, date) == IOUValue(ParseDec(date.factor))

\* an add that hands back the receiver when the operands are not comparable
AddReturningReceiver(a, addend) ==
  Then(FromJson(addend),
       LAMBDA addendAmount :
         IF ~is_comparable(a, addendAmount) THEN Ok(Clone(a, FALSE))
         ELSE Copy(a, V_add(a.value, addendAmount.value)))

Add(a, addend) ==
  Then(FromJson(addend),
       LAMBDA addendAmount :
         IF ~is_comparable(a, addendAmount) THEN Ok(NewAmount)
         ELSE Copy(a, V_add(a.value, addendAmount.value)))

\* a subtract that adds the subtrahend as it is
SubtractNotNegated(a, subtrahend) ==
  Then(FromJson(subtrahend), LAMBDA s : Add(a, s))

Subtract(a, subtrahend) ==
  Then(FromJson(subtrahend), LAMBDA s : Add(a, Negate(s)))

Multiply(a, multiplicand) ==
  Then(FromJson(multiplicand),
       LAMBDA multiplyBy : Copy(a, V_multiply(a.value, multiplyBy.value)))

Divide(a, divisor) ==
  Then(FromJson(divisor),
       LAMBDA divisorAmount : Copy(a, V_divide(a.value, divisorAmount.value)))

ApplyInterest(a, referenceDate) ==
  IF ~Currency_has_interest(a.currency) THEN Ok(a)
  ELSE Copy(a, V_multiply(a.value, Currency_get_interest_at(a.currency, referenceDate)))

RatioHuman(a, denom, opts) ==
  With(Clone(a, FALSE),
       LAMBDA numerator :
         Then(FromJson(denom),
              LAMBDA denominator :
                IF ~is_valid(numerator) \/ ~is_valid(denominator)
                THEN Amount_new(Num(<<"N", "a", "N">>))
                ELSE IF is_zero(denominator) THEN Amount_new(Num(<<"N", "a", "N">>))
                ELSE Then(IF HasDate(opts)
                          THEN ApplyInterest(denominator, opts.reference_date)
                          ELSE Ok(denominator),
                          LAMBDA d :
                            Then(IF d.is_native
                                 THEN Then(Multiply(numerator, bi_xns_unit),
                                           LAMBDA m : SetValue(numerator, m))
                                 ELSE Ok(numerator),
                                 LAMBDA n : Divide(n, d)))))

\* bi_xns_unit.toString()
bi_xns_unit_text == Str(<<"1", "0", "0", "0", "0", "0", "0">>)

\* a product_human that leaves the product of a native factor in drops
ProductHumanInDrops(a, factor, opts) ==
  Then(FromJson(factor),
       LAMBDA fac0 :
         IF ~is_valid(a) \/ ~is_valid(fac0) THEN Ok(NewAmount)
         ELSE Then(IF HasDate(opts) THEN ApplyInterest(fac0, opts.reference_date) ELSE Ok(fac0),
                   LAMBDA fac : Multiply(a, fac)))

ProductHuman(a, factor, opts) ==
  Then(FromJson(factor),
       LAMBDA fac0 :
         IF ~is_valid(a) \/ ~is_valid(fac0) THEN Ok(NewAmount)
         ELSE Then(IF HasDate(opts) THEN ApplyInterest(fac0, opts.reference_date) ELSE Ok(fac0),
                   LAMBDA fac :
                     Then(Multiply(a, fac),
                          LAMBDA product :
                            IF fac.is_native
                            THEN Then(Divide(product, bi_xns_unit_text),
                                      LAMBDA quotient : SetValue(product, quotient.value))
                            ELSE Ok(product))))

\* compareTo: a number, or a new Amount() when the operands are not comparable
CompareTo(a, to) ==
  Then(FromJson(to),
       LAMBDA toAmount :
         IF ~is_comparable(a, toAmount) THEN Ok(NewAmount)
         ELSE Ok(V_comparedTo(a.value, toAmount.value)))

\* an equals that compares the issuers whatever ignore_issuer says
EqualsComparingIssuers(a, d, ignore_issuer) ==
  /\ is_valid(a) /\ is_valid(d)
  /\ a.is_native = d.is_native
  /\ V_equals(a.value, d.value)
  /\ (a.is_native \/ (/\ Currency_equals(a.currency, d.currency)
                      /\ UInt160_equals(a.issuer, d.issuer)))

EqualsAmount(a, d, ignore_issuer) ==
  /\ is_valid(a) /\ is_valid(d)
  /\ a.is_native = d.is_native
  /\ V_equals(a.value, d.value)
  /\ (a.is_native \/ (/\ Currency_equals(a.currency, d.currency)
                      /\ (ignore_issuer \/ UInt160_equals(a.issuer, d.issuer))))

\* equals(d, ignore_issuer): a d that is no Amount is parsed, and the
\* recursive call passes no ignore_issuer
Equals(a, d, ignore_issuer) ==
  IF d.cls # "Amount"
  THEN Then(FromJson(d), LAMBDA r : Ok(Bool(EqualsAmount(a, r, FALSE))))
  ELSE Ok(Bool(EqualsAmount(a, d, ignore_issuer)))

\* parse_human: the words of j, then <<value, currency>> or <<>>
HumanWords(s) == SelectSeq(Split(s, " "), LAMBDA w : w # <<>>)
isNumber(s) == s # <<>> /\ IsNumeric(Str(s))
currency_RE(s) == Len(s) = 3 /\ (AllChars(s, IsAlpha) \/ AllChars(s, IsDigit))
hex_RE(s) == Len(s) = 40 /\ AllChars(s, IsHexChar)

\* a reading of the words that also takes a 160-bit code before the number
HumanPartsEitherOrder(words) ==
  IF Len(words) = 1
  THEN IF isNumber(words[1]) THEN <<words[1], XRPCode>>
       ELSE With(<<SubSeq(words[1], 1, Len(words[1]) - 3),
                   SubSeq(words[1], IF Len(words[1]) > 3 THEN Len(words[1]) - 2 ELSE 1,
                          Len(words[1]))>>,
                 LAMBDA vc : IF isNumber(vc[1]) /\ currency_RE(vc[2]) THEN vc ELSE <<>>)
  ELSE IF Len(words) = 2
  THEN With(isNumber(words[1]),
            LAMBDA n1 :
              IF n1 /\ hex_RE(words[2]) THEN <<words[1], words[2]>>
              ELSE IF hex_RE(words[1]) /\ isNumber(words[2]) THEN <<words[2], words[1]>>
              ELSE IF currency_RE(words[1]) /\ isNumber(words[2]) THEN <<words[2], words[1]>>
              ELSE IF n1 /\ currency_RE(words[2]) THEN <<words[1], words[2]>>
              ELSE <<>>)
  ELSE <<>>

HumanParts(words) ==
  IF Len(words) = 1
  THEN IF isNumber(words[1]) THEN <<words[1], XRPCode>>
       ELSE With(<<SubSeq(words[1], 1, Len(words[1]) - 3),
                   SubSeq(words[1], IF Len(words[1]) > 3 THEN Len(words[1]) - 2 ELSE 1,
                          Len(words[1]))>>,
                 LAMBDA vc : IF isNumber(vc[1]) /\ currency_RE(vc[2]) THEN vc ELSE <<>>)
  ELSE IF Len(words) = 2
  THEN With(isNumber(words[1]),
            LAMBDA n1 :
              IF n1 /\ hex_RE(words[2]) THEN <<words[1], words[2]>>
              ELSE IF currency_RE(words[1]) /\ isNumber(words[2]) THEN <<words[2], words[1]>>
              ELSE IF n1 /\ currency_RE(words[2]) THEN <<words[1], words[2]>>
              ELSE <<>>)
  ELSE <<>>

ParseHuman(a, j, opts) ==
  With(HumanParts(HumanWords(j.s)),
       LAMBDA parts :
         IF parts = <<>> THEN Ok(NewAmount)
         ELSE With(ToUpperCase(parts[2]),
                   LAMBDA currency :
                     With([SetCurrency(a, Str(currency)) EXCEPT !.is_native = (currency = XRPCode)],
                          LAMBDA a1 :
                            Then(SetValue(a1, IF a1.is_native THEN XRPValue(ParseDec(parts[1]))
                                              ELSE IOUValue(ParseDec(parts[1]))),
                                 LAMBDA r :
                                   IF HasDate(opts) /\ Currency_has_interest(r.currency)
                                   THEN SetValue(r, V_divide(r.value,
                                          Currency_get_interest_at(r.currency,
                                                                   opts.reference_date)))
                                   ELSE Ok(r)))))

FromHuman(j, opts) == ParseHuman(NewAmount, j, opts)

\* opts of parse_quality
QualityOpts(inverse, base_currency, reference_date, xrp_as_drops) ==
  [inverse |-> inverse, base_currency |-> base_currency,
   reference_date |-> reference_date, xrp_as_drops |-> xrp_as_drops]

\* parseInt(offset_hex, 16) of two hex digits
ParseIntHex2(s) == 16 * HexVal(s[1]) + HexVal(s[2])

\* parse_quality: the price the quality encodes, after the inversion
QualityPrice(quality, opts) ==
  With(IOUValue(BN(FALSE, HexToNat(SubSeq(quality, Len(quality) - 13, Len(quality))), 0)),
       LAMBDA mantissa :
         With(IOUValue(ParseDec(BToString(mantissa.n) \o <<"e">>
                                  \o IntText(ParseIntHex2(SubSeq(quality, Len(quality) - 15,
                                                                 Len(quality) - 14)) - 100))),
              LAMBDA price : IF opts.inverse THEN V_invert(price) ELSE price))

\* parse_quality: the drops adjustment
NativeAdjusted(price, native, baseCurrency, opts) ==
  IF opts.xrp_as_drops THEN price
  ELSE IF native THEN V_divide(price, bi_xns_unit)
  ELSE IF Currency_is_valid(baseCurrency) /\ Currency_is_native(baseCurrency)
  THEN V_multiply(price, bi_xns_unit)
  ELSE price

\* a parse_quality that leaves a native counter amount in drops
ParseQualityCounterInDrops(a, quality, counterCurrency, counterIssuer, opts) ==
  With(Currency_from_json(opts.base_currency),
       LAMBDA baseCurrency :
         With([a EXCEPT !.currency = Currency_from_json(counterCurrency),
                        !.issuer = UInt160_from_json(counterIssuer),
                        !.is_native = Currency_is_native(Currency_from_json(counterCurrency))],
              LAMBDA a1 :
                IF a1.is_native /\ Currency_is_native(baseCurrency)
                THEN Throw("XRP/XRP quality is not allowed")
                ELSE With(NativeAdjusted(QualityPrice(quality, opts), FALSE, baseCurrency, opts),
                          LAMBDA nativeAdjusted :
                            Then(SetValue(a1, IF a1.is_native
                                              THEN XRPValue(ParseDec(BToString(
                                                     BTruncPlaces(nativeAdjusted.n, xns_precision))))
                                              ELSE nativeAdjusted),
                                 LAMBDA a2 :
                                   IF /\ HasDate(opts)
                                      /\ Currency_is_valid(baseCurrency)
                                      /\ Currency_has_interest(baseCurrency)
                                   THEN SetValue(a2, V_divide(a2.value,
                                          Currency_get_interest_at(baseCurrency,
                                                                   opts.reference_date)))
                                   ELSE Ok(a2)))))

ParseQuality(a, quality, counterCurrency, counterIssuer, opts) ==
  With(Currency_from_json(opts.base_currency),
       LAMBDA baseCurrency :
         With([a EXCEPT !.currency = Currency_from_json(counterCurrency),
                        !.issuer = UInt160_from_json(counterIssuer),
                        !.is_native = Currency_is_native(Currency_from_json(counterCurrency))],
              LAMBDA a1 :
                IF a1.is_native /\ Currency_is_native(baseCurrency)
                THEN Throw("XRP/XRP quality is not allowed")
                ELSE With(NativeAdjusted(QualityPrice(quality, opts), a1.is_native,
                                         baseCurrency, opts),
                          LAMBDA nativeAdjusted :
                            Then(SetValue(a1, IF a1.is_native
                                              THEN XRPValue(ParseDec(BToString(
                                                     BTruncPlaces(nativeAdjusted.n, xns_precision))))
                                              ELSE nativeAdjusted),
                                 LAMBDA a2 :
                                   IF /\ HasDate(opts)
                                      /\ Currency_is_valid(baseCurrency)
                                      /\ Currency_has_interest(baseCurrency)
                                   THEN SetValue(a2, V_divide(a2.value,
                                          Currency_get_interest_at(baseCurrency,
                                                                   opts.reference_date)))
                                   ELSE Ok(a2)))))

FromQuality(quality, currency, issuer, opts) ==
  ParseQuality(NewAmount, quality, currency, issuer, opts)

\* s without its leading characters c
TrimLeft(s, c) ==
  IF \A i \in DOMAIN s : s[i] = c THEN <<>>
  ELSE SubSeq(s, CHOOSE i \in DOMAIN s : s[i] # c /\ \A k \in 1..(i - 1) : s[k] = c, Len(s))

\* s without its trailing characters c
TrimRight(s, c) ==
  IF \A i \in DOMAIN s : s[i] = c THEN <<>>
  ELSE SubSeq(s, 1, CHOOSE i \in DOMAIN s : s[i] # c /\ \A k \in (i + 1)..Len(s) : s[k] = c)

\* utils.getMantissa16FromString: the 16-digit mantissa of a decimal text,
\* its digits without point, exponent and leading zeros, filled with zeros
getMantissa16FromString(s) ==
  With(TrimLeft(SelectSeq(IF Positions(s, "e") # {}
                          THEN SubSeq(s, 1, Min(Positions(s, "e")) - 1) ELSE s,
                          LAMBDA c : c # "."),
                "0"),
       LAMBDA m : ParseDec(SubSeq(m \o [i \in 1..(16 - Len(m)) |-> "0"], 1, 16)))

\* to_text, not native: <<pre, post>>, the digits before and after the point
TextWindow(mantissa, offset) ==
  With([i \in 1..27 |-> "0"] \o mantissa \o [i \in 1..23 |-> "0"],
       LAMBDA val : <<SubSeq(val, 1, offset + 43), SubSeq(val, offset + 44, Len(val))>>)

\* Convert only value to JSON wire format.
ToText(a) ==
  IF ~is_valid(a) THEN <<"N", "a", "N">>
  ELSE IF a.is_native THEN BToString(V_multiply(a.value, bi_xns_unit).n)
  ELSE With(<<V_getExponent(a.value) - 15,
              IF V_isNegative(a.value) THEN <<"-">> ELSE <<>>,
              BToString(getMantissa16FromString(BToString(V_abs(a.value).n)))>>,
            LAMBDA osm :
              IF osm[1] # 0 /\ (osm[1] < 0 - 25 \/ osm[1] > 0 - 4)
              THEN osm[2] \o osm[3] \o <<"e">> \o IntText(osm[1])
              ELSE With(TextWindow(osm[3], osm[1]),
                        LAMBDA pp :
                          With(<<TrimLeft(pp[1], "0"), TrimRight(pp[2], "0")>>,
                               LAMBDA s :
                                 osm[2] \o (IF s[1] # <<>> THEN s[1] ELSE <<"0">>)
                                        \o (IF s[2] # <<>> THEN <<".">> \o s[2] ELSE <<>>))))

ToJson(a) ==
  IF a.is_native THEN Str(ToText(a))
  ELSE Obj(Str(ToText(a)),
           Str(IF Currency_has_interest(a.currency) THEN Currency_to_hex(a.currency)
               ELSE Currency_to_json(a.currency)),
           IF UInt160_is_valid(a.issuer) THEN Str(UInt160_to_json(a.issuer)) ELSE Undefined)


(***************************************************************************)
(* Seed (seed.js).  A Seed holds _value, NaN or a 128-bit number, and      *)
(* _type.  A number is written by where it comes from: decoded from a      *)
(* base-58 seed, read from 32 hex digits, or the first 16 bytes of the     *)
(* SHA-512 of a passphrase.                                                *)
(***************************************************************************)
secp256k1 == "secp256k1"
ed25519 == "ed25519"

SeedNaN == [kind |-> "NaN", of |-> <<>>]

\* new Seed()
Seed_new == [cls |-> "Seed", value |-> SeedNaN, type |-> secp256k1]

Seed_is_valid(sd) == sd.value.kind # "NaN"

\* the base-58 seeds decodeSeed accepts, with the key type of their version
MasterSeed == <<"s", "n", "o", "P", "B", "r", "X", "t", "M", "e", "M", "y", "M", "H", "U", "V", "T", "g", "b", "u", "q", "A", "f", "g", "1", "S", "U", "T", "b">>
Ed25519Seed == <<"s", "E", "d", "T", "M", "1", "u", "X", "8", "p", "u", "2", "d", "o", "5", "X", "v", "T", "n", "u", "t", "H", "6", "H", "s", "o", "u", "M", "a", "M", "2">>

decodeSeed(s) ==
  CASE s = MasterSeed -> Ok([bytes |-> [kind |-> "base58", of |-> s], type |-> secp256k1])
    [] s = Ed25519Seed -> Ok([bytes |-> [kind |-> "base58", of |-> s], type |-> ed25519])
    [] OTHER -> Throw("invalid seed")

\* UInt.prototype.parse_hex: 2 * Seed.width hex digits
Seed_width == 16

Seed_parse_hex(sd, j) ==
  IF j.cls = "string" /\ Len(j.s) = 2 * Seed_width /\ AllChars(j.s, IsHexChar)
  THEN [sd EXCEPT !.value = [kind |-> "hex", of |-> ToUpperCase(j.s)]]
  ELSE [sd EXCEPT !.value = SeedNaN]

Seed_parse_base58(sd, j) ==
  IF j.cls # "string" THEN Throw("Value must be a string")
  ELSE IF j.s = <<>> \/ j.s[1] # "s" THEN Ok([sd EXCEPT !.value = SeedNaN])
  ELSE With(decodeSeed(j.s),
            LAMBDA d :
              IF IsOk(d) THEN Ok([sd EXCEPT !.value = d.v.bytes, !.type = d.v.type])
              ELSE Ok([sd EXCEPT !.value = SeedNaN]))

Seed_set_ed25519(sd) == [sd EXCEPT !.type = ed25519]

Seed_parse_passphrase(sd, j) ==
  IF j.cls # "string" THEN Throw("Passphrase must be a string")
  ELSE Ok([sd EXCEPT !.value = [kind |-> "sha512", of |-> j.s]])

\* value = NaN on error.
Seed_parse_json(sd, j) ==
  IF j.cls = "string"
  THEN IF j.s = <<>> THEN Ok([sd EXCEPT !.value = SeedNaN])
       ELSE Then(Seed_parse_base58(sd, j),
                 LAMBDA s1 :
                   With(IF ~Seed_is_valid(s1) THEN Seed_parse_hex(s1, j) ELSE s1,
                        LAMBDA s2 :
                          IF ~Seed_is_valid(s2) /\ j.s[1] # "s"
                          THEN Seed_parse_passphrase(s2, j)
                          ELSE Ok(s2)))
  ELSE Ok([sd EXCEPT !.value = SeedNaN])

\* to_json: NaN, or encodeSeed(bytes, type)
Seed_to_json(sd) ==
  IF ~Seed_is_valid(sd) THEN Num(<<"N", "a", "N">>)
  ELSE [cls |-> "string", encoded |-> sd.value, type |-> sd.type]

\* get_key: KeyPair.fromSeed(bytes, type)
Seed_get_key(sd) ==
  IF ~Seed_is_valid(sd) THEN Throw("Cannot generate keys from invalid seed!")
  ELSE Ok([cls |-> "KeyPair", seed |-> sd.value, type |-> sd.type])

(***************************************************************************)
(* The server calls of the API (api/server/server.js).  The remote has a   *)
(* server or none; the server holds _lastLedgerClose, NaN until a ledger   *)
(* close is recorded.  Numbers are JavaScript numbers: NaN compares false. *)
(***************************************************************************)
JsInt(n) == [cls |-> "number", nan |-> FALSE, v |-> n]
JsNaN == [cls |-> "number", nan |-> TRUE, v |-> 0]

\* Boolean(x)
Truthy(x) ==
  CASE x.cls \in {"undefined", "null"} -> FALSE
    [] x.cls = "boolean" -> x.b
    [] x.cls = "number" -> ~x.nan /\ x.v # 0
    [] OTHER -> TRUE

\* If a ledger is not received in this time, consider the connection offline
CONNECTION_TIMEOUT == 1000 * 30

\* x - y <= limit
WithinOf(x, y, limit) == ~x.nan /\ ~y.nan /\ x.v - y.v <= limit

\* x - y < limit
LessThanOf(x, y, limit) == ~x.nan /\ ~y.nan /\ x.v - y.v < limit

\* an isUpToDate that takes an age of CONNECTION_TIMEOUT for too old
isUpToDateExclusive(r, t) ==
  Truthy(r.server)
    /\ (Truthy(r.stand_alone)
        \/ LessThanOf(JsInt(t), r.server.lastLedgerClose, CONNECTION_TIMEOUT))

isUpToDate(r, t) ==
  Truthy(r.server)
    /\ (Truthy(r.stand_alone)
        \/ WithinOf(JsInt(t), r.server.lastLedgerClose, CONNECTION_TIMEOUT))

isConnected(r, t) == Truthy(r.ledger_current_index) /\ isUpToDate(r, t)

(***************************************************************************)
(* The inputs the calls are made with.                                     *)
(***************************************************************************)
Slots == {"a", "b"}
Other(s) == IF s = "a" THEN "b" ELSE "a"

\* a 160-bit currency code with interest: its type byte is 01
DemurrageCode == <<"0", "1">> \o [i \in 1..38 |-> "0"]

JsonStrings == {
  <<"1">>,
  <<"0">>,
  <<"1", ".", "5">>,
  <<"a", "b", "c">>,
  <<>>,
  <<"1", "0", "0", "0", "0", "0", "0", "0", "0", "0", "0", "0", "0", "0", "0", "0", "0", "0">>,
  <<"1", "0", "0", "0", "0", "0", "0", "0", "0", "0", "0", "0", "0", "0", "0", "0", "0", "0", "0">>,
  <<"1", "0", "0", "/", "U", "S", "D", "/", "r", "A">>,
  <<"1", "0", "0", "/", "U", "S", "D">>,
  <<"1", "/", "X", "R", "P">>,
  <<"0", "/", "U", "S", "D">>,
  <<"-", "3", "/", "E", "U", "R", "/", "r", "A">>,
  <<"1", "e", "-", "8", "1", "/", "U", "S", "D">>,
  <<"1", "e", "-", "8", "2", "/", "U", "S", "D">>,
  <<"9", "9", "9", "9", "9", "9", "9", "9", "9", "9", "9", "9", "9", "9", "9", "9", "e", "8", "0", "/", "U", "S", "D">>,
  <<"1", "e", "9", "6", "/", "U", "S", "D">>,
  <<"1", "0", "0", "0", "0", "0", "0", "0", "0", "0", "0", "0", "0", "/", "U", "S", "D", "/", "r", "A">>,
  <<"x", "/", "U", "S", "D">>,
  <<"3", "/">> \o DemurrageCode \o <<"/", "r", "A">>
}

JsonInputs ==
  {Str(s) : s \in JsonStrings}
  \cup {Num(<<"3">>), Num(<<"1", ".", "5">>), Null, Undefined, Bool(TRUE)}
  \cup {Obj(Str(<<"2">>), Str(<<"U", "S", "D">>), Str(<<"r", "A">>)),
        Obj(Str(<<"2">>), Str(XRPCode), Str(<<"r", "B">>)),
        Obj(Str(<<"2">>), Str(<<"U", "S", "D">>), Undefined),
        ObjNoValue(Str(<<"U", "S", "D">>))}

HumanInputs == {
  Str(<<"2", "5", ".", "2", " ", "X", "R", "P">>),
  Str(<<"U", "S", "D", " ", "1", "0", "0", ".", "4", "0">>),
  Str(<<"1", "0", "0">>),
  Str(<<"1", "2", "u", "s", "d">>),
  Str(<<"a", "b">>),
  Str(<<"1", " ", "2", " ", "3">>),
  Str(<<"1", "0", "0", "0", "0", "0", "0", "0", "0", "0", "0", "0", " ", "X", "R", "P">>),
  Str(<<"1", "0", "0", "0", "0", "0", "0", "0", "0", "0", "0", "0", "0", " ", "X", "R", "P">>)
}

\* a 160-bit currency code with interest, as the network writes it
DemurrageHex ==
  <<"0", "1", "5", "8", "4", "1", "5", "5", "1", "A", "7", "4", "8", "A", "D", "2", "C", "1", "F", "7",
    "6", "F", "F", "6", "E", "C", "B", "0", "C", "C", "C", "D", "0", "0", "0", "0", "0", "0", "0", "0">>

\* texts of every shape parse_human tells apart
HumanShapeInputs ==
  HumanInputs \cup {
    Str(<<>>),
    Str(<<" ", " ">>),
    Str(<<"X", "R", "P">>),
    Str(<<"x", "r", "p", " ", "7">>),
    Str(<<" ", "7", " ", " ", "E", "U", "R", " ">>),
    Str(<<"1", "e", "3", " ", "U", "S", "D">>),
    Str(<<"1", "0", "0", "1", "2", "3">>),
    Str(<<"1", "2", " ", "9", "7", "8">>),
    Str(<<"9", "7", "8", " ", "1", "2">>),
    Str(<<"U", "S", "D", " ", "E", "U", "R">>),
    Str(<<"U", "S", "1", " ", "5">>),
    Str(<<"5", "x", "r", "p">>),
    Str(<<"-", "3", " ", "E", "U", "R">>),
    Str(<<"0", " ", "U", "S", "D">>),
    Str(<<"5", " ">> \o DemurrageHex),
    Str(DemurrageHex \o <<" ", "5">>),
    Str(DemurrageHex),
    Str(<<"5">> \o DemurrageHex),
    Str(<<"U", "S", "D", " ">> \o DemurrageHex)
  }

NumberInputs == {Num(<<"5">>), Num(<<"N", "a", "N">>)}

CurrencyInputs == {Str(XRPCode), Str(<<"U", "S", "D">>)}

\* the interest factors the dates of the calls stand for
OptsInputs == {NoOpts, AtDate(<<"2">>)}

\* qualities: 5 (mantissa 5 * 10^15, exponent byte 85), 3 * 10^-7 (mantissa
\* 3 * 10^15, exponent byte 78) and one with a mantissa of 15 digits
QualityInputs == {
  <<"5", "5", "1", "1", "C", "3", "7", "9", "3", "7", "E", "0", "8", "0", "0", "0">>,
  <<"4", "E", "0", "A", "A", "8", "7", "B", "E", "E", "5", "3", "8", "0", "0", "0">>,
  <<"5", "D", "0", "3", "6", "4", "B", "9", "E", "3", "B", "0", "0", "0", "6", "4">>
}

BaseCurrencyInputs == {Undefined, Str(XRPCode), Str(<<"U", "S", "D">>), Str(DemurrageCode)}

QualityOptsInputs ==
  {QualityOpts(i, b, o.reference_date, x) :
     i \in BOOLEAN, b \in BaseCurrencyInputs, o \in OptsInputs, x \in BOOLEAN}

\* Amounts the arithmetic identities are tried on: native and issued, zero,
\* one, negative, at the limits, and with reciprocals that are not exact
IdentityInputs == {
  Str(<<"1">>),
  Str(<<"0">>),
  Str(<<"3", "0", "0", "0", "0", "0", "0">>),
  Str(<<"1", "/", "U", "S", "D">>),
  Str(<<"0", "/", "U", "S", "D">>),
  Str(<<"1", "0", "0", "/", "U", "S", "D", "/", "r", "A">>),
  Str(<<"7", "/", "U", "S", "D", "/", "r", "A">>),
  Str(<<"-", "3", "/", "E", "U", "R", "/", "r", "A">>),
  Str(<<"1", "e", "-", "8", "1", "/", "U", "S", "D">>),
  Str(<<"9", "9", "9", "9", "9", "9", "9", "9", "9", "9", "9", "9", "9", "9", "9", "9", "e", "8", "0", "/", "U", "S", "D">>),
  Str(<<"1", "e", "9", "0", "/", "U", "S", "D">>),
  Obj(Str(<<"2">>), Str(<<"U", "S", "D">>), Undefined),
  Str(<<"a", "b", "c">>)
}

\* Amounts made as objects: issued, native, with interest, zero, invalid
ObjectInputs == {
  Str(<<"1", "0", "0", "/", "U", "S", "D", "/", "r", "A">>),
  Str(<<"3", "0", "0", "0", "0", "0", "0">>),
  Str(<<"3", "/">> \o DemurrageCode \o <<"/", "r", "A">>),
  Str(<<"0", "/", "U", "S", "D">>),
  Obj(Str(<<"2">>), Str(<<"U", "S", "D">>), Str(<<"r", "A">>)),
  Str(<<"a", "b", "c">>)
}

\* arguments of parse_json on an Amount that exists
ReparseInputs == {
  Obj(Str(<<"2">>), Str(<<"E", "U", "R">>), Str(<<"r", "B">>)),
  Obj(Str(<<"1", "e", "9", "9">>), Str(<<"E", "U", "R">>), Undefined),
  ObjNoValue(Str(<<"E", "U", "R">>)),
  Str(<<"5", "/", "E", "U", "R", "/", "r", "B">>),
  Str(<<"7">>),
  Str(<<"1", ".", "5">>),
  Null,
  Undefined
}

\* what Seed.parse_json is called with: seeds in base 58, a text that
\* starts like one, 32 hex digits, passphrases, the empty string, no string
SeedInputs == {
  Str(MasterSeed),
  Str(Ed25519Seed),
  Str(<<"s", "a", "u", "s", "a", "g", "e">>),
  Str(<<"D", "E", "D", "C", "E", "9", "C", "E", "6", "7", "B", "4", "5", "1", "D", "8", "5", "2", "F", "D", "4", "E", "8", "4", "6", "F", "C", "D", "E", "3", "1", "C">>),
  Str(<<"m", "a", "s", "t", "e", "r", "p", "a", "s", "s", "p", "h", "r", "a", "s", "e">>),
  Str(<<"D", "E", "A", "D">>),
  Str(<<>>),
  Num(<<"5">>),
  Null,
  Undefined
}

\* calls made on the Seed in one run
MaxSeedCalls == 3

\* the clock stops at MaxTime, the ledger index at MaxLedger
MaxTime == 100000
MaxLedger == 3

\* the times that pass between two events, in milliseconds
Delays == {10000, CONNECTION_TIMEOUT, CONNECTION_TIMEOUT + 1}

\* Amounts of either sign and zero, native and issued, written with and
\* without a sign
SignInputs == {
  Str(<<"0">>),
  Str(<<"-", "0">>),
  Str(<<"2">>),
  Str(<<"-", "2">>),
  Str(<<"0", "/", "U", "S", "D", "/", "r", "A">>),
  Str(<<"-", "0", "/", "U", "S", "D", "/", "r", "A">>),
  Str(<<"2", "/", "U", "S", "D", "/", "r", "A">>),
  Str(<<"-", "2", "/", "U", "S", "D", "/", "r", "A">>),
  Str(<<"-", "1", "e", "-", "8", "1", "/", "U", "S", "D", "/", "r", "A">>),
  Str(<<"a", "b", "c">>)
}

\* operations called one after the other where the sign of zero is followed
MaxSignCalls == 2

\* calls of operations made on the two constructed Amounts in one run
MaxCalls == 1

(***************************************************************************)
(* Objects.  An Amount object refers to a Currency object and a UInt160    *)
(* object; copyTo copies the references.  A heap h holds the Amount,       *)
(* Currency and UInt160 objects made so far, h.slot the Amount object each *)
(* program variable refers to.  The operations below are the operations    *)
(* above, statement by statement, on objects: the outcome of each is the   *)
(* heap it leaves and the object (or number) it returns, or the heap it    *)
(* leaves and the error thrown.                                            *)
(***************************************************************************)
EmptyHeap == [amt |-> <<>>, cur |-> <<>>, iss |-> <<>>, slot |-> [s \in Slots |-> 0]]

\* the Amount observed through object id
View(h, id) ==
  [cls |-> "Amount", value |-> h.amt[id].value, is_native |-> h.amt[id].is_native,
   currency |-> h.cur[h.amt[id].currency], issuer |-> h.iss[h.amt[id].issuer]]

\* an argument that is an Amount object, and one that is a UInt160 object
Ref(id) == [cls |-> "Amount", id |-> id]
IssuerRef(id) == [cls |-> "UInt160", id |-> id]

Done(h, r) == [t |-> "ok", h |-> h, r |-> r]
Failed(h, e) == [t |-> "throw", h |-> h, e |-> e]

\* the statements F after a call with outcome x
AndThen(x, F(_, _)) == CHOOSE r \in {IF y.t = "ok" THEN F(y.h, y.r) ELSE y : y \in {x}} : TRUE

\* new Amount()
NewAt(h) ==
  Done([h EXCEPT !.amt = Append(@, [value |-> NewAmount.value, is_native |-> TRUE,
                                    currency |-> Len(h.cur) + 1, issuer |-> Len(h.iss) + 1]),
                 !.cur = Append(@, NewCurrency),
                 !.iss = Append(@, NewUInt160)],
       Len(h.amt) + 1)

\* this._currency = c, a new Currency object
AssignCurrency(h, id, c) ==
  [h EXCEPT !.cur = Append(@, c), !.amt[id].currency = Len(h.cur) + 1]

\* this._issuer = u, a new UInt160 object
AssignIssuer(h, id, u) ==
  [h EXCEPT !.iss = Append(@, u), !.amt[id].issuer = Len(h.iss) + 1]

\* this._set_value(value): the value is assigned before the limits are checked
SetValueAt(h, id, value) ==
  With(SetValue(View(h, id), value),
       LAMBDA r :
         IF IsOk(r) THEN Done([h EXCEPT !.amt[id].value = r.v.value], id)
         ELSE IF IsValueObj(value)
         THEN Failed([h EXCEPT !.amt[id].value =
                        IF V_isZero(value) /\ V_isNegative(value) THEN V_negate(value)
                        ELSE value], r.e)
         ELSE Failed(h, r.e))

\* this.copyTo(d, negate): d refers to the Currency and UInt160 of this
CopyToAt(h, this, d, negate) ==
  Done([h EXCEPT !.amt[d] = [h.amt[this] EXCEPT !.value = IF negate THEN V_negate(@) ELSE @]], d)

CloneAt(h, this, negate) ==
  AndThen(NewAt(h), LAMBDA h1, d : CopyToAt(h1, this, d, negate))

CopyAt(h, this, value) ==
  AndThen(CloneAt(h, this, FALSE), LAMBDA h1, copy : SetValueAt(h1, copy, value))

NegateAt(h, this) == CloneAt(h, this, TRUE)

AbsAt(h, this) == CopyAt(h, this, V_abs(h.amt[this].value))

\* an invert that inverts the receiver: this._invert()
InvertInPlaceAt(h, this) == SetValueAt(h, this, V_invert(h.amt[this].value))

\* this.clone()._invert()
InvertAt(h, this) ==
  AndThen(CloneAt(h, this, FALSE),
          LAMBDA h1, c : SetValueAt(h1, c, V_invert(h1.amt[c].value)))

ParseValueAt(h, id, j) ==
  SetValueAt([h EXCEPT !.amt[id].is_native = FALSE], id, IOUValue(ToBigNumber(j)))

ParseNativeAt(h, id, j) ==
  IF j.cls = "string" /\ j.s # <<>> /\ IsNumeric(j)
  THEN IF Positions(j.s, ".") # {}
       THEN Failed(h, "Native amounts must be specified in integer drops")
       ELSE SetValueAt([h EXCEPT !.amt[id].is_native = TRUE], id,
                       V_divide(XRPValue(ToBigNumber(j)), bi_xns_unit))
  ELSE SetValueAt(h, id, IOUValue(BNaN))

\* parse_json, case 'string': new Currency and UInt160 objects are assigned
ParseJsonStringAt(h, id, s) ==
  With(MatchSlashes(s),
       LAMBDA m :
         IF m # <<>>
         THEN ParseValueAt(AssignIssuer(AssignCurrency(h, id, Currency_from_json(Str(m[2]))),
                                        id,
                                        UInt160_from_json(Str(IF m[3] # <<>> THEN m[3]
                                                              ELSE <<"1">>))),
                           id, Str(m[1]))
         ELSE AndThen(ParseNativeAt(h, id, Str(s)),
                      LAMBDA h1, r :
                        Done(AssignIssuer(AssignCurrency(h1, id, Currency_from_json(Str(<<"0">>))),
                                          id, UInt160_from_json(Str(<<"0">>))),
                             id)))

\* parse_json, an object with a value: this._currency.parse_json(j.currency,
\* true) and this._issuer.parse_json(j.issuer) change the objects this refers to
ParseJsonObjectAt(h, id, j) ==
  ParseValueAt([h EXCEPT !.cur[h.amt[id].currency] = Currency_parse_json(j.currency, TRUE),
                         !.iss[h.amt[id].issuer] =
                           IF TypeOf(j.issuer) = "string" THEN UInt160_from_json(j.issuer)
                           ELSE @],
               id, j.value)

ParseJsonAt(h, id, j) ==
  IF j.cls = "Amount" THEN CopyToAt(h, j.id, id, FALSE)
  ELSE IF TypeOf(j) \in {"string", "number"} THEN ParseJsonStringAt(h, id, j.s)
  ELSE IF TypeOf(j) = "object"
  THEN (IF j.cls = "object" /\ "value" \in j.own THEN ParseJsonObjectAt(h, id, j)
        ELSE Done(h, id))
  ELSE SetValueAt(h, id, IOUValue(BNaN))

FromJsonAt(h, j) == AndThen(NewAt(h), LAMBDA h1, d : ParseJsonAt(h1, d, j))

AddAt(h, this, addend) ==
  AndThen(FromJsonAt(h, addend),
          LAMBDA h1, addendAmount :
            IF ~is_comparable(View(h1, this), View(h1, addendAmount)) THEN NewAt(h1)
            ELSE CopyAt(h1, this, V_add(h1.amt[this].value, h1.amt[addendAmount].value)))

SubtractAt(h, this, subtrahend) ==
  AndThen(FromJsonAt(h, subtrahend),
          LAMBDA h1, s : AndThen(NegateAt(h1, s), LAMBDA h2, n : AddAt(h2, this, Ref(n))))

MultiplyAt(h, this, multiplicand) ==
  AndThen(FromJsonAt(h, multiplicand),
          LAMBDA h1, m : CopyAt(h1, this, V_multiply(h1.amt[this].value, h1.amt[m].value)))

DivideAt(h, this, divisor) ==
  AndThen(FromJsonAt(h, divisor),
          LAMBDA h1, d : CopyAt(h1, this, V_divide(h1.amt[this].value, h1.amt[d].value)))

\* applyInterest: this, or a copy
ApplyInterestAt(h, this, referenceDate) ==
  IF ~Currency_has_interest(View(h, this).currency) THEN Done(h, this)
  ELSE CopyAt(h, this, V_multiply(h.amt[this].value,
                                  Currency_get_interest_at(View(h, this).currency,
                                                           referenceDate)))

\* new Amount(NaN)
NewNaNAt(h) ==
  With(Amount_new(Num(<<"N", "a", "N">>)),
       LAMBDA r : IF IsOk(r) THEN NewAt(h) ELSE Failed(h, r.e))

RatioHumanAt(h, this, denom, opts) ==
  AndThen(CloneAt(h, this, FALSE),
          LAMBDA h1, numerator :
            AndThen(FromJsonAt(h1, denom),
                    LAMBDA h2, denominator :
                      IF ~is_valid(View(h2, numerator)) \/ ~is_valid(View(h2, denominator))
                      THEN NewNaNAt(h2)
                      ELSE IF is_zero(View(h2, denominator)) THEN NewNaNAt(h2)
                      ELSE AndThen(IF HasDate(opts)
                                   THEN ApplyInterestAt(h2, denominator, opts.reference_date)
                                   ELSE Done(h2, denominator),
                                   LAMBDA h3, d :
                                     AndThen(IF h3.amt[d].is_native
                                             THEN AndThen(MultiplyAt(h3, numerator, bi_xns_unit),
                                                          LAMBDA h4, m :
                                                            SetValueAt(h4, numerator, View(h4, m)))
                                             ELSE Done(h3, numerator),
                                             LAMBDA h5, n : DivideAt(h5, n, Ref(d))))))

ProductHumanAt(h, this, factor, opts) ==
  AndThen(FromJsonAt(h, factor),
          LAMBDA h1, fac0 :
            IF ~is_valid(View(h1, this)) \/ ~is_valid(View(h1, fac0)) THEN NewAt(h1)
            ELSE AndThen(IF HasDate(opts) THEN ApplyInterestAt(h1, fac0, opts.reference_date)
                         ELSE Done(h1, fac0),
                         LAMBDA h2, fac :
                           AndThen(MultiplyAt(h2, this, Ref(fac)),
                                   LAMBDA h3, product :
                                     IF h3.amt[fac].is_native
                                     THEN AndThen(DivideAt(h3, product, bi_xns_unit_text),
                                                  LAMBDA h4, quotient :
                                                    SetValueAt(h4, product, h4.amt[quotient].value))
                                     ELSE Done(h3, product))))

\* compareTo: the number, or the new Amount() as it is observed
CompareToAt(h, this, to) ==
  AndThen(FromJsonAt(h, to),
          LAMBDA h1, toAmount :
            IF ~is_comparable(View(h1, this), View(h1, toAmount))
            THEN AndThen(NewAt(h1), LAMBDA h2, d : Done(h2, View(h2, d)))
            ELSE Done(h1, V_comparedTo(h1.amt[this].value, h1.amt[toAmount].value)))

SetCurrencyAt(h, id, c) ==
  With(Currency_from_json(c),
       LAMBDA cu :
         Done([AssignCurrency(h, id, cu) EXCEPT !.amt[id].is_native = Currency_is_native(cu)], id))

\* set_issuer: a UInt160 object is referred to, anything else is parsed
SetIssuerAt(h, id, issuer) ==
  IF issuer.cls = "UInt160" THEN Done([h EXCEPT !.amt[id].issuer = issuer.id], id)
  ELSE Done(AssignIssuer(h, id, UInt160_from_json(issuer)), id)

ParseIssuerAt(h, id, issuer) == Done(AssignIssuer(h, id, UInt160_from_json(issuer)), id)

\* parse_human: a text that is no amount returns a new Amount()
ParseHumanAt(h, id, j, opts) ==
  With(HumanParts(HumanWords(j.s)),
       LAMBDA parts :
         IF parts = <<>> THEN NewAt(h)
         ELSE AndThen(SetCurrencyAt(h, id, Str(ToUpperCase(parts[2]))),
                      LAMBDA h1, x :
                        AndThen(SetValueAt([h1 EXCEPT !.amt[id].is_native =
                                              (ToUpperCase(parts[2]) = XRPCode)],
                                           id,
                                           IF ToUpperCase(parts[2]) = XRPCode
                                           THEN XRPValue(ParseDec(parts[1]))
                                           ELSE IOUValue(ParseDec(parts[1]))),
                                LAMBDA h2, y :
                                  IF HasDate(opts) /\ Currency_has_interest(View(h2, id).currency)
                                  THEN SetValueAt(h2, id,
                                         V_divide(h2.amt[id].value,
                                                  Currency_get_interest_at(View(h2, id).currency,
                                                                           opts.reference_date)))
                                  ELSE Done(h2, id))))

ParseQualityAt(h, id, quality, counterCurrency, counterIssuer, opts) ==
  With(<<Currency_from_json(opts.base_currency), Currency_from_json(counterCurrency)>>,
       LAMBDA cs :
         With([AssignIssuer(AssignCurrency(h, id, cs[2]), id, UInt160_from_json(counterIssuer))
                 EXCEPT !.amt[id].is_native = Currency_is_native(cs[2])],
              LAMBDA h1 :
                IF h1.amt[id].is_native /\ Currency_is_native(cs[1])
                THEN Failed(h1, "XRP/XRP quality is not allowed")
                ELSE With(NativeAdjusted(QualityPrice(quality, opts), h1.amt[id].is_native,
                                         cs[1], opts),
                          LAMBDA nativeAdjusted :
                            AndThen(SetValueAt(h1, id,
                                      IF h1.amt[id].is_native
                                      THEN XRPValue(ParseDec(BToString(
                                             BTruncPlaces(nativeAdjusted.n, xns_precision))))
                                      ELSE nativeAdjusted),
                                    LAMBDA h2, x :
                                      IF /\ HasDate(opts)
                                         /\ Currency_is_valid(cs[1])
                                         /\ Currency_has_interest(cs[1])
                                      THEN SetValueAt(h2, id,
                                             V_divide(h2.amt[id].value,
                                                      Currency_get_interest_at(cs[1],
                                                        opts.reference_date)))
                                      ELSE Done(h2, id)))))

(***************************************************************************)
(* The calls.  A run constructs a, then b, then calls up to MaxCalls       *)
(* operations.  A constructor's or an operation's result is assigned to    *)
(* program variable d; a call that throws assigns nothing.                 *)
(***************************************************************************)
Called(op, recv, arg, flag, out) ==
  [op |-> op, recv |-> recv, arg |-> arg, flag |-> flag, out |-> out, strict |-> strict_mode]

Assign(d, out) ==
  am' = IF IsOk(out) THEN [am EXCEPT ![d] = out.v] ELSE am

Init ==
  /\ am = [s \in Slots |-> NewAmount]
  /\ strict_mode = TRUE
  /\ lax_seen = FALSE
  /\ last = Called("none", Null, Null, FALSE, Ok(Null))
  /\ ncalls = 0
  /\ heap = EmptyHeap
  /\ seed = Seed_new
  /\ remote = [server |-> Undefined, stand_alone |-> Undefined,
               ledger_current_index |-> Undefined]
  /\ now = 0

\* the operations are called once a and b are constructed
Operating == ncalls >= 2 /\ ncalls < 2 + MaxCalls

Construct(op, arg, out) ==
  /\ ncalls < 2
  /\ Assign(IF ncalls = 0 THEN "a" ELSE "b", out)
  /\ last' = Called(op, Null, arg, FALSE, out)
  /\ ncalls' = ncalls + 1
  /\ UNCHANGED <<strict_mode, lax_seen, heap>>
  /\ UNCHANGED OtherVars

\* d = Amount.from_json(j)
CallFromJson(j) == Construct("from_json", j, FromJson(j))

\* d = Amount.from_human(j, opts)
CallFromHuman(j, opts) == Construct("from_human", j, FromHuman(j, opts))

\* d = Amount.from_number(n)
CallFromNumber(n) == Construct("from_number", n, FromNumber(n))

\* d = Amount.from_quality(quality, currency, issuer, opts)
CallFromQuality(quality, currency, issuer, opts) ==
  Construct("from_quality",
            [cls |-> "arguments", quality |-> quality, currency |-> currency,
             issuer |-> issuer, opts |-> opts],
            FromQuality(quality, currency, issuer, opts))

\* Amount.strict_mode = v
SetStrictMode(v) ==
  /\ strict_mode # v
  /\ strict_mode' = v
  /\ lax_seen' = (lax_seen \/ ~v)
  /\ UNCHANGED <<am, last, ncalls, heap>>
  /\ UNCHANGED OtherVars

Operate(op, recv, arg, flag, d, out) ==
  /\ Operating
  /\ Assign(d, out)
  /\ last' = Called(op, recv, arg, flag, out)
  /\ ncalls' = ncalls + 1
  /\ UNCHANGED <<strict_mode, lax_seen, heap>>
  /\ UNCHANGED OtherVars

\* d = a.op(b) for the binary operations
CallAdd(d) == Operate("add", am["a"], am["b"], FALSE, d, Add(am["a"], am["b"]))
CallSubtract(d) == Operate("subtract", am["a"], am["b"], FALSE, d, Subtract(am["a"], am["b"]))
CallMultiply(d) == Operate("multiply", am["a"], am["b"], FALSE, d, Multiply(am["a"], am["b"]))
CallDivide(d) == Operate("divide", am["a"], am["b"], FALSE, d, Divide(am["a"], am["b"]))

\* d = a.ratio_human(b, opts)
CallRatioHuman(d, opts) ==
  Operate("ratio_human", am["a"], am["b"], HasDate(opts), d, RatioHuman(am["a"], am["b"], opts))

\* d = a.product_human(b, opts)
CallProductHuman(d, opts) ==
  Operate("product_human", am["a"], am["b"], HasDate(opts), d,
          ProductHuman(am["a"], am["b"], opts))

\* d = s.op() for the unary operations
CallClone(d) == Operate("clone", am[Other(d)], Null, FALSE, d, Ok(Clone(am[Other(d)], FALSE)))
CallNegate(d) == Operate("negate", am[d], Null, FALSE, d, Ok(Negate(am[d])))
CallAbs(d) == Operate("abs", am[d], Null, FALSE, d, Abs(am[d]))
CallInvert(d) == Operate("invert", am[d], Null, FALSE, d, Invert(am[d]))

\* s.set_currency(c): changes the object s refers to
CallSetCurrency(s, c) ==
  Operate("set_currency", am[s], c, FALSE, s, Ok(SetCurrency(am[s], c)))

\* a.compareTo(b): the result is a number or an Amount, and is not assigned
CallCompareTo ==
  /\ Operating
  /\ last' = Called("compareTo", am["a"], am["b"], FALSE, CompareTo(am["a"], am["b"]))
  /\ ncalls' = ncalls + 1
  /\ UNCHANGED <<am, strict_mode, lax_seen, heap>>
  /\ UNCHANGED OtherVars

\* a.equals(b, ignore_issuer)
CallEquals(ignore_issuer) ==
  /\ Operating
  /\ last' = Called("equals", am["a"], am["b"], ignore_issuer,
                    Equals(am["a"], am["b"], ignore_issuer))
  /\ ncalls' = ncalls + 1
  /\ UNCHANGED <<am, strict_mode, lax_seen, heap>>
  /\ UNCHANGED OtherVars

\* d = Amount.from_json(s.to_json()); nothing is called after it
CallRoundTrip(s) ==
  /\ ncalls >= 2 /\ ncalls <= 2 + MaxCalls
  /\ last' = Called("round_trip", am[s], ToJson(am[s]), FALSE, FromJson(ToJson(am[s])))
  /\ ncalls' = 3 + MaxCalls
  /\ UNCHANGED <<am, strict_mode, lax_seen, heap>>
  /\ UNCHANGED OtherVars

\* d = s.invert().invert()
CallInvertTwice(s) ==
  Operate("invert_twice", am[s], Null, FALSE, s, Then(Invert(am[s]), LAMBDA r : Invert(r)))

\* the Amounts observed through the program variables
Views(h) == [s \in Slots |-> IF h.slot[s] = 0 THEN NewAmount ELSE View(h, h.slot[s])]

\* the outcome of a call that returns an Amount object
Outcome(x) == IF x.t = "ok" THEN Ok(View(x.h, x.r)) ELSE Throw(x.e)

\* the outcome of a call that returns what it returns
ReturnedAs(x) == IF x.t = "ok" THEN Ok(x.r) ELSE Throw(x.e)

\* s = the object a call returns; a call that throws assigns nothing and
\* the objects it made are lost
Made(s, n, op, arg, x) ==
  /\ ncalls = n
  /\ heap' = IF x.t = "ok" THEN [x.h EXCEPT !.slot[s] = x.r] ELSE heap
  /\ am' = Views(heap')
  /\ last' = Called(op, IF n = 0 THEN Null ELSE am["a"], arg, FALSE, Outcome(x))
  /\ ncalls' = IF x.t = "ok" THEN n + 1 ELSE n
  /\ UNCHANGED <<strict_mode, lax_seen>>
  /\ UNCHANGED OtherVars

\* a = Amount.from_json(j)
MakeA(j) == Made("a", 0, "from_json", j, FromJsonAt(heap, j))

\* b = Amount.from_json(j)
MakeB(j) == Made("b", 1, "from_json", j, FromJsonAt(heap, j))

\* b = a.clone()
CloneA == Made("b", 1, "clone", Null, CloneAt(heap, heap.slot["a"], FALSE))

\* b = new Amount(); a.copyTo(b)
CopyAToB ==
  Made("b", 1, "copyTo", Null,
       AndThen(NewAt(heap), LAMBDA h1, d : CopyToAt(h1, heap.slot["a"], d, FALSE)))

\* b = Amount.from_json(a)
FromJsonOfA == Made("b", 1, "from_json", am["a"], FromJsonAt(heap, Ref(heap.slot["a"])))

\* b = a.add(a), b = a.multiply("2"), b = a.negate()
ArithmeticOfA(op) ==
  Made("b", 1, op, Null,
       CASE op = "add" -> AddAt(heap, heap.slot["a"], Ref(heap.slot["a"]))
         [] op = "multiply" -> MultiplyAt(heap, heap.slot["a"], Str(<<"2">>))
         [] OTHER -> NegateAt(heap, heap.slot["a"]))

\* d = a.op(b) or d = a.op(): the objects a and b refer to stay in a and b
Operation(op, arg, flag, x, out) ==
  /\ Operating
  /\ heap' = x.h
  /\ am' = Views(heap')
  /\ last' = Called(op, am["a"], arg, flag, out)
  /\ ncalls' = ncalls + 1
  /\ UNCHANGED <<strict_mode, lax_seen>>
  /\ UNCHANGED OtherVars

OperationOnB(op, flag, x) == Operation(op, am["b"], flag, x, Outcome(x))

OperationOnA(op, flag, x) == Operation(op, Null, flag, x, Outcome(x))

ObjAdd == OperationOnB("add", FALSE, AddAt(heap, heap.slot["a"], Ref(heap.slot["b"])))
ObjSubtract == OperationOnB("subtract", FALSE, SubtractAt(heap, heap.slot["a"], Ref(heap.slot["b"])))
ObjMultiply == OperationOnB("multiply", FALSE, MultiplyAt(heap, heap.slot["a"], Ref(heap.slot["b"])))
ObjDivide == OperationOnB("divide", FALSE, DivideAt(heap, heap.slot["a"], Ref(heap.slot["b"])))
ObjRatioHuman(opts) ==
  OperationOnB("ratio_human", HasDate(opts),
               RatioHumanAt(heap, heap.slot["a"], Ref(heap.slot["b"]), opts))
ObjProductHuman(opts) ==
  OperationOnB("product_human", HasDate(opts),
               ProductHumanAt(heap, heap.slot["a"], Ref(heap.slot["b"]), opts))
ObjCompareTo ==
  Operation("compareTo", am["b"], FALSE, CompareToAt(heap, heap.slot["a"], Ref(heap.slot["b"])),
            ReturnedAs(CompareToAt(heap, heap.slot["a"], Ref(heap.slot["b"]))))
ObjNegate == OperationOnA("negate", FALSE, NegateAt(heap, heap.slot["a"]))
ObjAbs == OperationOnA("abs", FALSE, AbsAt(heap, heap.slot["a"]))
ObjInvert == OperationOnA("invert", FALSE, InvertAt(heap, heap.slot["a"]))
ObjApplyInterest(opts) ==
  OperationOnA("applyInterest", TRUE,
               ApplyInterestAt(heap, heap.slot["a"], opts.reference_date))

\* b.op(arg): a call on the object b refers to; other is a as it was
Reparse(op, arg, x) ==
  /\ Operating
  /\ heap' = x.h
  /\ am' = Views(heap')
  /\ last' = [op |-> op, recv |-> am["b"], arg |-> arg, flag |-> FALSE, out |-> Outcome(x),
              strict |-> strict_mode, other |-> am["a"]]
  /\ ncalls' = ncalls + 1
  /\ UNCHANGED <<strict_mode, lax_seen>>
  /\ UNCHANGED OtherVars

ObjParseJson(j) == Reparse("parse_json", j, ParseJsonAt(heap, heap.slot["b"], j))
ObjParseValue(j) == Reparse("parse_value", j, ParseValueAt(heap, heap.slot["b"], j))
ObjSetCurrency(c) == Reparse("set_currency", c, SetCurrencyAt(heap, heap.slot["b"], c))
ObjSetIssuer(i) == Reparse("set_issuer", i, SetIssuerAt(heap, heap.slot["b"], i))

\* b.set_issuer(a.issuer())
ObjSetIssuerOfA ==
  Reparse("set_issuer", am["a"].issuer,
          SetIssuerAt(heap, heap.slot["b"], IssuerRef(heap.amt[heap.slot["a"]].issuer)))
ObjParseIssuer(i) == Reparse("parse_issuer", i, ParseIssuerAt(heap, heap.slot["b"], i))
ObjParseHuman(j, opts) == Reparse("parse_human", j, ParseHumanAt(heap, heap.slot["b"], j, opts))
ObjParseQuality(quality, currency, issuer, opts) ==
  Reparse("parse_quality",
          [cls |-> "arguments", quality |-> quality, currency |-> currency,
           issuer |-> issuer, opts |-> opts],
          ParseQualityAt(heap, heap.slot["b"], quality, currency, issuer, opts))

\* a call on the Seed
SeedStep(op, arg, out) ==
  /\ ncalls < MaxSeedCalls
  /\ seed' = IF IsOk(out) THEN out.v ELSE seed
  /\ last' = Called(op, seed, arg, FALSE, out)
  /\ ncalls' = ncalls + 1
  /\ UNCHANGED <<AmountVars, remote, now>>

\* seed = new Seed()
CallSeedNew == SeedStep("new Seed", Null, Ok(Seed_new))

\* seed.parse_json(j)
CallSeedParseJson(j) == SeedStep("Seed.parse_json", j, Seed_parse_json(seed, j))

\* seed.set_ed25519()
CallSeedSetEd25519 == SeedStep("Seed.set_ed25519", Null, Ok(Seed_set_ed25519(seed)))

SeedNext ==
  \/ CallSeedNew
  \/ \E j \in SeedInputs : CallSeedParseJson(j)
  \/ CallSeedSetEd25519

SeedSpec == Init /\ [][SeedNext]_vars

\* an event of the connection, or a call of the API
ServerStep(op, out) ==
  /\ last' = Called(op, remote, JsInt(now), FALSE, out)
  /\ UNCHANGED <<AmountVars, seed, ncalls>>

\* the remote is set up to run stand-alone, or not
SetStandAlone(v) ==
  /\ remote.stand_alone # Bool(v)
  /\ remote' = [remote EXCEPT !.stand_alone = Bool(v)]
  /\ now' = now
  /\ ServerStep("stand_alone", Ok(Null))

\* the remote gets a server, which has seen no ledger close
ServerConnected ==
  /\ ~Truthy(remote.server)
  /\ remote' = [remote EXCEPT !.server = [cls |-> "Server", lastLedgerClose |-> JsNaN]]
  /\ now' = now
  /\ ServerStep("connect", Ok(Null))

\* the remote loses its server
ServerDisconnected ==
  /\ Truthy(remote.server)
  /\ remote' = [remote EXCEPT !.server = Undefined]
  /\ now' = now
  /\ ServerStep("disconnect", Ok(Null))

\* a ledger close is recorded: the server notes the time, the remote the index
LedgerClosed ==
  /\ Truthy(remote.server)
  /\ IF Truthy(remote.ledger_current_index)
       THEN remote.ledger_current_index.v < MaxLedger
       ELSE TRUE
  /\ remote' = [remote EXCEPT
                  !.server.lastLedgerClose = JsInt(now),
                  !.ledger_current_index =
                    IF Truthy(@) THEN JsInt(@.v + 1) ELSE JsInt(1)]
  /\ now' = now
  /\ ServerStep("ledger_closed", Ok(Null))

\* time passes
Tick(d) ==
  /\ now + d <= MaxTime
  /\ now' = now + d
  /\ remote' = remote
  /\ ServerStep("tick", Ok(Null))

\* api.isConnected()
CallIsConnected ==
  /\ last.op # "isConnected"
  /\ UNCHANGED <<remote, now>>
  /\ ServerStep("isConnected", Ok(Bool(isConnected(remote, now))))

ServerNext ==
  \/ \E v \in BOOLEAN : SetStandAlone(v)
  \/ ServerConnected
  \/ ServerDisconnected
  \/ LedgerClosed
  \/ \E d \in Delays : Tick(d)
  \/ CallIsConnected

ServerSpec == Init /\ [][ServerNext]_vars

\* d = the result of an operation, in a sequence of operations
SignCall(op, recv, arg, d, out) ==
  /\ ncalls >= 2 /\ ncalls < 2 + MaxSignCalls
  /\ Assign(d, out)
  /\ last' = Called(op, recv, arg, FALSE, out)
  /\ ncalls' = ncalls + 1
  /\ UNCHANGED <<strict_mode, lax_seen, heap>>
  /\ UNCHANGED OtherVars

SignAdd(d) == SignCall("add", am["a"], am["b"], d, Add(am["a"], am["b"]))
SignSubtract(d) == SignCall("subtract", am["a"], am["b"], d, Subtract(am["a"], am["b"]))
SignMultiply(d) == SignCall("multiply", am["a"], am["b"], d, Multiply(am["a"], am["b"]))
SignDivide(d) == SignCall("divide", am["a"], am["b"], d, Divide(am["a"], am["b"]))
SignClone(d) == SignCall("clone", am[Other(d)], Null, d, Ok(Clone(am[Other(d)], FALSE)))
SignNegate(d) == SignCall("negate", am[d], Null, d, Ok(Negate(am[d])))
SignAbs(d) == SignCall("abs", am[d], Null, d, Abs(am[d]))
SignInvert(d) == SignCall("invert", am[d], Null, d, Invert(am[d]))

\* the constructors, then sequences of the arithmetic and the copies
SignNext ==
  \/ \E j \in SignInputs : CallFromJson(j)
  \/ \E j \in HumanInputs : CallFromHuman(j, NoOpts)
  \/ \E n \in NumberInputs : CallFromNumber(n)
  \/ \E d \in Slots : SignAdd(d)
  \/ \E d \in Slots : SignSubtract(d)
  \/ \E d \in Slots : SignMultiply(d)
  \/ \E d \in Slots : SignDivide(d)
  \/ \E d \in Slots : SignClone(d)
  \/ \E d \in Slots : SignNegate(d)
  \/ \E d \in Slots : SignAbs(d)
  \/ \E d \in Slots : SignInvert(d)

SignSpec == Init /\ [][SignNext]_vars

Next ==
  \/ \E j \in JsonInputs : CallFromJson(j)
  \/ \E j \in HumanInputs : CallFromHuman(j, NoOpts)
  \/ \E n \in NumberInputs : CallFromNumber(n)
  \/ \E v \in BOOLEAN : SetStrictMode(v)
  \/ \E d \in Slots : CallAdd(d)
  \/ \E d \in Slots : CallSubtract(d)
  \/ \E d \in Slots : CallMultiply(d)
  \/ \E d \in Slots : CallDivide(d)
  \/ \E d \in Slots, o \in OptsInputs : CallRatioHuman(d, o)
  \/ \E d \in Slots, o \in OptsInputs : CallProductHuman(d, o)
  \/ \E d \in Slots : CallClone(d)
  \/ \E d \in Slots : CallNegate(d)
  \/ \E d \in Slots : CallAbs(d)
  \/ \E d \in Slots : CallInvert(d)
  \/ \E s \in Slots, c \in CurrencyInputs : CallSetCurrency(s, c)
  \/ CallCompareTo
  \/ \E i \in BOOLEAN : CallEquals(i)

Spec == Init /\ [][Next]_vars

\* the JSON writer and reader: Amounts of every origin, written and read back
JsonNext ==
  \/ \E j \in JsonInputs : CallFromJson(j)
  \/ \E j \in HumanInputs : CallFromHuman(j, NoOpts)
  \/ \E n \in NumberInputs : CallFromNumber(n)
  \/ \E d \in Slots : CallAdd(d)
  \/ \E d \in Slots : CallSubtract(d)
  \/ \E d \in Slots : CallMultiply(d)
  \/ \E d \in Slots : CallDivide(d)
  \/ \E s \in Slots : CallRoundTrip(s)

JsonSpec == Init /\ [][JsonNext]_vars

\* the arithmetic alone, on Amounts that may be equal, zero or one
IdentityNext ==
  \/ \E j \in IdentityInputs : CallFromJson(j)
  \/ \E j \in HumanInputs : CallFromHuman(j, NoOpts)
  \/ \E v \in BOOLEAN : SetStrictMode(v)
  \/ \E d \in Slots : CallAdd(d)
  \/ \E d \in Slots : CallSubtract(d)
  \/ \E d \in Slots : CallMultiply(d)
  \/ \E d \in Slots : CallDivide(d)
  \/ \E s \in Slots : CallInvertTwice(s)

IdentitySpec == Init /\ [][IdentityNext]_vars

\* the objects: a is made, b is made or obtained from a, and an operation
\* is called on a with b, or on the object b refers to
OwnershipNext ==
  \/ \E j \in ObjectInputs : MakeA(j)
  \/ \E j \in ObjectInputs : MakeB(j)
  \/ CloneA
  \/ CopyAToB
  \/ FromJsonOfA
  \/ \E op \in {"add", "multiply", "negate"} : ArithmeticOfA(op)
  \/ ObjAdd
  \/ ObjSubtract
  \/ ObjMultiply
  \/ ObjDivide
  \/ \E o \in OptsInputs : ObjRatioHuman(o)
  \/ \E o \in OptsInputs : ObjProductHuman(o)
  \/ ObjCompareTo
  \/ ObjNegate
  \/ ObjAbs
  \/ ObjInvert
  \/ ObjApplyInterest(AtDate(<<"2">>))
  \/ \E j \in ReparseInputs : ObjParseJson(j)
  \/ ObjParseValue(Str(<<"9">>))
  \/ \E c \in {Str(<<"E", "U", "R">>), Str(XRPCode)} : ObjSetCurrency(c)
  \/ ObjSetIssuer(Str(<<"r", "B">>))
  \/ ObjSetIssuerOfA
  \/ ObjParseIssuer(Str(<<"r", "B">>))
  \/ \E j \in {Str(<<"1", "2", " ", "E", "U", "R">>), Str(<<"a", "b">>)}, o \in OptsInputs :
       ObjParseHuman(j, o)
  \/ \E q \in QualityInputs, o \in {QualityOpts(FALSE, Undefined, Undefined, FALSE),
                                    QualityOpts(TRUE, Str(XRPCode), Undefined, FALSE)} :
       ObjParseQuality(q, Str(<<"E", "U", "R">>), Str(<<"r", "B">>), o)

OwnershipSpec == Init /\ [][OwnershipNext]_vars

\* the human parser alone: texts of every shape, with and without a date
HumanNext ==
  \/ \E j \in HumanShapeInputs, o \in OptsInputs : CallFromHuman(j, o)
  \/ \E v \in BOOLEAN : SetStrictMode(v)

HumanSpec == Init /\ [][HumanNext]_vars

\* the quality codec alone: prices decoded from directory indexes
QualityNext ==
  \/ /\ ncalls = 0
     /\ \E q \in QualityInputs, c \in CurrencyInputs, o \in QualityOptsInputs :
          CallFromQuality(q, c, Str(<<"r", "A">>), o)
  \/ \E v \in BOOLEAN : SetStrictMode(v)

QualitySpec == Init /\ [][QualityNext]_vars


(***************************************************************************)
(* Properties.  They are stated over the last call: its receiver and       *)
(* argument as they were when it was made, and its outcome.                *)
(***************************************************************************)
IsAmount(x) == x.cls = "Amount"
Returned == IsOk(last.out) /\ IsAmount(last.out.v)
ReturnedInvalid == Returned /\ ~is_valid(last.out.v)
RangeErrors == {"Exceeding max value", "Exceeding min value"}

\* a valid native Amount with a valid issued one, in either order
MixedPair(a, b) == is_valid(a) /\ is_valid(b) /\ a.is_native # b.is_native

\* the limits of the two kinds, as decimals
XRPLimit == BN(FALSE, <<1>>, 11)
IOUUpper == BN(FALSE, <<9, 9, 9, 9, 9, 9, 9, 9, 9, 9, 9, 9, 9, 9, 9, 9>>, 80)
IOULower == BN(FALSE, <<1>>, 0 - 81)

InRange(native, n) ==
  IF native THEN BCmpAbs(n, XRPLimit) <= 0
  ELSE BCmpAbs(n, IOULower) >= 0 /\ BCmpAbs(n, IOUUpper) <= 0

WithinLimits(a) == InRange(a.is_native, a.value.n)

C2_InvalidInInvalidOut ==
  /\ (last.op \in {"clone", "negate", "abs", "invert"} /\ ~is_valid(last.recv))
       => ReturnedInvalid
  /\ (last.op \in {"add", "subtract", "multiply", "divide"}
        /\ (~is_valid(last.recv) \/ ~is_valid(last.arg)))
       => ReturnedInvalid

C2_Witness ==
  /\ last.op = "multiply"
  /\ is_valid(last.recv) /\ ~is_zero(last.recv)
  /\ ~is_valid(last.arg)
  /\ ReturnedInvalid

\* an input of from_json that has none of the formats: no string or number
\* that is an integer count of drops or value/currency[/issuer] with a
\* numeric value, and no object with a numeric value
FormatMismatch(j) ==
  CASE j.cls \in {"string", "number"} ->
         IF MatchSlashes(j.s) # <<>> THEN ~isNumber(MatchSlashes(j.s)[1])
         ELSE ~isNumber(j.s) \/ Positions(j.s, ".") # {}
    [] j.cls = "object" -> "value" \notin j.own \/ ~IsNumeric(j.value)
    [] OTHER -> TRUE

\* C3: from_json throws for no format mismatch of its input (a numeric
\* string with a decimal point included): it returns an invalid Amount.
C3_FromJsonNeverThrowsOnMismatch ==
  (last.op = "from_json" /\ FormatMismatch(last.arg)) => ReturnedInvalid

\* C4: a valid Amount made by the constructors and the arithmetic is native
\* exactly when its currency is the native currency.
C4_NativeIffCurrencyNative ==
  \A s \in Slots :
    is_valid(am[s]) => (is_native(am[s]) <=> Currency_is_native(am[s].currency))

\* C5: a valid native Amount that from_json or from_human returns has the
\* native currency and the zero issuer.
C5_NativeHasZeroIssuer ==
  (last.op \in {"from_json", "from_human"} /\ Returned
     /\ is_valid(last.out.v) /\ is_native(last.out.v))
  => /\ Currency_is_native(last.out.v.currency)
     /\ UInt160_is_valid(last.out.v.issuer)
     /\ UInt160_is_zero(last.out.v.issuer)

\* C6: while strict_mode has been true throughout, every valid Amount that
\* is not zero is within the limits of its kind.
C6_StrictModeWithinLimits ==
  ~lax_seen =>
    \A s \in Slots : (is_valid(am[s]) /\ ~is_zero(am[s])) => WithinLimits(am[s])

\* the amount a constructor's text denotes: its kind and its decimal
Denoted(c) ==
  IF c.op = "from_json" /\ c.arg.cls = "string"
  THEN IF MatchSlashes(c.arg.s) # <<>>
       THEN [ok |-> TRUE, native |-> FALSE, n |-> ParseDec(MatchSlashes(c.arg.s)[1])]
       ELSE IF c.arg.s # <<>> /\ AllChars(c.arg.s, IsDigit)
       THEN [ok |-> TRUE, native |-> TRUE,
             n |-> BTimes(ParseDec(c.arg.s), BN(FALSE, <<1>>, 0 - 6))]
       ELSE [ok |-> FALSE]
  ELSE IF c.op = "from_human" /\ HumanParts(HumanWords(c.arg.s)) # <<>>
  THEN [ok |-> TRUE,
        native |-> ToUpperCase(HumanParts(HumanWords(c.arg.s))[2]) = XRPCode,
        n |-> ParseDec(HumanParts(HumanWords(c.arg.s))[1])]
  ELSE [ok |-> FALSE]

\* C7: in strict mode a constructor accepts zero and every amount up to and
\* including the limits of its kind (10^11 XRP; 10^-81 and 9999999999999999e80
\* issued) and returns it, and throws for every amount beyond them.
C7_BoundaryAcceptance ==
  (last.strict /\ Denoted(last).ok /\ ~Denoted(last).n.nan) =>
    IF BIsZero(Denoted(last).n) \/ InRange(Denoted(last).native, Denoted(last).n)
    THEN /\ Returned
         /\ is_valid(last.out.v)
         /\ last.out.v.is_native = Denoted(last).native
         /\ BCmp(last.out.v.value.n, Denoted(last).n) = 0
    ELSE /\ ~IsOk(last.out)
         /\ last.out.e = IF ~Denoted(last).native /\ BCmpAbs(Denoted(last).n, IOULower) < 0
                         THEN "Exceeding min value" ELSE "Exceeding max value"

\* the largest native amount, 10^11 XRP, has been accepted in strict mode
C7_Witness ==
  /\ last.op = "from_json" /\ last.strict
  /\ Returned
  /\ is_native(last.out.v)
  /\ is_valid(last.out.v)
  /\ BCmpAbs(last.out.v.value.n, XRPLimit) = 0

\* what the specification requires of a.equals(b, ignore_issuer)
EqualAmounts(a, b, ignore_issuer) ==
  /\ is_valid(a) /\ is_valid(b)
  /\ a.is_native = b.is_native
  /\ BCmp(a.value.n, b.value.n) = 0
  /\ ~a.is_native =>
       /\ Currency_equals(a.currency, b.currency)
       /\ ignore_issuer \/ UInt160_equals(a.issuer, b.issuer)

\* C8: a.equals(b, ignore_issuer) is true exactly when both are valid, of
\* one kind, of equal value and, if not native, of equal currency and (unless
\* ignore_issuer) equal issuer; an invalid Amount equals nothing, itself
\* included, and b.equals(a, ignore_issuer) gives the same.
C8_EqualsSemantics ==
  last.op = "equals" =>
    /\ last.out = Ok(Bool(EqualAmounts(last.recv, last.arg, last.flag)))
    /\ (~is_valid(last.recv) \/ ~is_valid(last.arg)) => last.out = Ok(Bool(FALSE))
    /\ ~is_valid(last.recv) => Equals(last.recv, last.recv, last.flag) = Ok(Bool(FALSE))
    /\ Equals(last.arg, last.recv, last.flag) = last.out

\* two issued Amounts that differ in their issuers only are equal when the
\* issuer is ignored
C8_Witness ==
  /\ last.op = "equals" /\ last.flag
  /\ ~is_native(last.recv)
  /\ last.recv.issuer # last.arg.issuer
  /\ last.out = Ok(Bool(TRUE))

\* C9: ratio_human returns an invalid Amount, without throwing, when the
\* numerator is invalid, the denominator is invalid or the denominator is zero.
C9_RatioHumanInvalidOperands ==
  (last.op = "ratio_human"
     /\ (~is_valid(last.recv) \/ ~is_valid(last.arg) \/ is_zero(last.arg)))
  => ReturnedInvalid

\* C10: ratio_human of a valid numerator by a valid native denominator that
\* is not zero returns, without throwing, a valid Amount of the numerator's
\* currency and issuer whose value is numerator * 10^6 / denominator.
C10_RatioHumanNativeDenominator ==
  (last.op = "ratio_human"
     /\ is_valid(last.recv) /\ is_valid(last.arg)
     /\ ~is_zero(last.arg) /\ is_native(last.arg))
  => /\ Returned
     /\ is_valid(last.out.v)
     /\ last.out.v.currency = last.recv.currency
     /\ last.out.v.issuer = last.recv.issuer
     /\ last.out.v.value =
          V_divide(V_multiply(last.recv.value, bi_xns_unit), last.arg.value)

\* the options of the last call of a human operation
LastOpts == IF last.flag THEN AtDate(<<"2">>) ELSE NoOpts

\* the value of Amount x with the interest of its currency at the date of
\* opts applied
WithInterest(x, opts) ==
  IF HasDate(opts) /\ Currency_has_interest(x.currency)
  THEN V_multiply(x.value, Currency_get_interest_at(x.currency, opts.reference_date))
  ELSE x.value

\* values of one class that are the same number
SameValue(v, w) == v.cls = w.cls /\ ~v.n.nan /\ ~w.n.nan /\ BCmp(v.n, w.n) = 0

\* this * factor, and that divided by 10^6 drops when the factor is native
HumanProduct(this, factor, opts) ==
  IF factor.is_native
  THEN V_divide(V_multiply(this.value, WithInterest(factor, opts)), XRPValue(TenTo(0)))
  ELSE V_multiply(this.value, WithInterest(factor, opts))

\* C11: product_human on valid operands returns an Amount of this's kind,
\* currency and issuer whose value is this * factor, divided by 10^6 when the
\* factor is native, with the interest at opts.reference_date applied to the
\* factor and never to this; the only other outcome is a range error of the
\* limit check in strict mode.  With an invalid operand it returns an invalid
\* Amount.
C11_ProductHuman ==
  last.op = "product_human" =>
    IF ~is_valid(last.recv) \/ ~is_valid(last.arg) THEN ReturnedInvalid
    ELSE \/ ~IsOk(last.out) /\ last.out.e \in RangeErrors /\ last.strict
         \/ /\ Returned
            /\ last.out.v.is_native = last.recv.is_native
            /\ last.out.v.currency = last.recv.currency
            /\ last.out.v.issuer = last.recv.issuer
            /\ SameValue(last.out.v.value, HumanProduct(last.recv, last.arg, LastOpts))

\* an issued amount has been multiplied by a native factor that is not zero
C11_Witness ==
  /\ last.op = "product_human"
  /\ is_valid(last.recv) /\ ~is_native(last.recv) /\ ~is_zero(last.recv)
  /\ is_valid(last.arg) /\ is_native(last.arg) /\ ~is_zero(last.arg)
  /\ Returned /\ is_valid(last.out.v) /\ ~is_zero(last.out.v)

\* product_human has applied the interest of the factor's currency
C11_InterestApplied ==
  /\ last.op = "product_human" /\ last.flag
  /\ is_valid(last.recv) /\ ~is_zero(last.recv)
  /\ is_valid(last.arg) /\ Currency_has_interest(last.arg.currency)
  /\ Returned /\ is_valid(last.out.v)

\* the price a quality encodes: mantissa * 10^(exponent byte - 100)
EncodedPrice(quality) ==
  IOUValue(BN(FALSE, HexToNat(SubSeq(quality, Len(quality) - 13, Len(quality))),
              ParseIntHex2(SubSeq(quality, Len(quality) - 15, Len(quality) - 14)) - 100))

Inverted(price, opts) == IF opts.inverse THEN V_invert(price) ELSE price

\* at most one adjustment by 10^6: a division for a native counter currency,
\* otherwise a multiplication for a valid native base currency
DropsAdjusted(price, counter, base, opts) ==
  IF opts.xrp_as_drops THEN price
  ELSE IF Currency_is_native(counter) THEN V_divide(price, IOUValue(TenTo(6)))
  ELSE IF Currency_is_valid(base) /\ Currency_is_native(base)
  THEN V_multiply(price, IOUValue(TenTo(6)))
  ELSE price

\* a native result is cut to 6 decimal places
RoundedForKind(price, counter) ==
  IF Currency_is_native(counter) THEN XRPValue(price.n) ELSE price

InterestDivided(price, base, opts) ==
  IF HasDate(opts) /\ Currency_is_valid(base) /\ Currency_has_interest(base)
  THEN V_divide(price, Currency_get_interest_at(base, opts.reference_date))
  ELSE price

DecodedQuality(quality, counter, base, opts) ==
  With(EncodedPrice(quality), LAMBDA encoded :
    With(Inverted(encoded, opts), LAMBDA inverted :
      With(DropsAdjusted(inverted, counter, base, opts), LAMBDA adjusted :
        With(RoundedForKind(adjusted, counter), LAMBDA rounded :
          InterestDivided(rounded, base, opts)))))

\* C12: from_quality, unless both currencies are native, returns an Amount of
\* the counter currency whose value is the encoded price after, in this
\* order, the inversion (opts.inverse), at most one adjustment by 10^6 (none
\* with opts.xrp_as_drops), the cut of a native result to 6 decimal places,
\* and the division by the base currency's interest factor (only with
\* opts.reference_date and a base currency with interest); the only other
\* outcome is a range error of the limit check in strict mode.
C12_ParseQualityAdjustments ==
  (last.op = "from_quality"
     /\ ~(/\ Currency_is_native(Currency_from_json(last.arg.currency))
          /\ Currency_is_native(Currency_from_json(last.arg.opts.base_currency))))
  => \/ ~IsOk(last.out) /\ last.out.e \in RangeErrors /\ last.strict
     \/ /\ Returned
        /\ last.out.v.currency = Currency_from_json(last.arg.currency)
        /\ last.out.v.is_native = Currency_is_native(last.out.v.currency)
        /\ SameValue(last.out.v.value,
                     DecodedQuality(last.arg.quality, last.out.v.currency,
                                    Currency_from_json(last.arg.opts.base_currency),
                                    last.arg.opts))

\* an inverted price in a native counter currency has lost digits beyond
\* the sixth decimal place
C12_Witness ==
  /\ last.op = "from_quality"
  /\ last.arg.opts.inverse /\ ~last.arg.opts.xrp_as_drops
  /\ Returned /\ is_native(last.out.v) /\ is_valid(last.out.v) /\ ~is_zero(last.out.v)
  /\ With(V_invert(EncodedPrice(last.arg.quality)),
          LAMBDA inverted : last.out.v.value.n # V_divide(inverted, IOUValue(TenTo(6))).n)

\* a price has been multiplied for a native base currency, and one divided
\* by the interest of the base currency
C12_BaseAdjusted ==
  /\ last.op = "from_quality" /\ Returned /\ is_valid(last.out.v)
  /\ \/ /\ last.arg.opts.base_currency = Str(XRPCode) /\ ~last.arg.opts.xrp_as_drops
        /\ ~SameValue(last.out.v.value, Inverted(EncodedPrice(last.arg.quality), last.arg.opts))
     \/ /\ HasDate(last.arg.opts) /\ last.arg.opts.base_currency = Str(DemurrageCode)
        /\ is_native(last.out.v)

\* the tokens of a text: its pieces between spaces, the empty ones dropped
Tokens(s) == SelectSeq(Split(s, " "), LAMBDA w : w # <<>>)

NumericToken(w) == w # <<>> /\ ~ParseDec(w).nan
CodeToken(w) == Len(w) = 3 /\ ((\A i \in 1..3 : IsAlpha(w[i])) \/ (\A i \in 1..3 : IsDigit(w[i])))
Hex160Token(w) == Len(w) = 40 /\ \A i \in 1..40 : IsHexChar(w[i])

\* the code of a text of an accepted shape, or <<>> for every other text
ShapeCode(w) ==
  IF Len(w) = 1
  THEN IF NumericToken(w[1]) THEN XRPCode
       ELSE IF /\ Len(w[1]) > 3
               /\ NumericToken(SubSeq(w[1], 1, Len(w[1]) - 3))
               /\ CodeToken(SubSeq(w[1], Len(w[1]) - 2, Len(w[1])))
       THEN SubSeq(w[1], Len(w[1]) - 2, Len(w[1]))
       ELSE <<>>
  ELSE IF Len(w) = 2
  THEN IF NumericToken(w[1]) /\ Hex160Token(w[2]) THEN w[2]
       ELSE IF CodeToken(w[1]) /\ NumericToken(w[2]) THEN w[1]
       ELSE IF NumericToken(w[1]) /\ CodeToken(w[2]) THEN w[2]
       ELSE <<>>
  ELSE <<>>

\* C13: from_human accepts one numeric token (native), one token that is a
\* number followed by a 3-letter or 3-digit code, and two tokens (number,
\* 160-bit hex code), (code, number) or (number, code); every other text (no
\* token, three or more, (hex code, number), a hex code alone) gives an
\* invalid Amount without throwing.  An accepted text gives a valid Amount
\* that is native exactly when its upper-cased code is XRP, or a range error
\* of the limit check in strict mode.
C13_HumanShapes ==
  last.op = "from_human" =>
    IF ShapeCode(Tokens(last.arg.s)) = <<>> THEN ReturnedInvalid
    ELSE \/ ~IsOk(last.out) /\ last.out.e \in RangeErrors /\ last.strict
         \/ /\ Returned
            /\ is_valid(last.out.v)
            /\ is_native(last.out.v) = (ToUpperCase(ShapeCode(Tokens(last.arg.s))) = XRPCode)

\* a 160-bit hex code before its number has been turned down
C13_Witness ==
  /\ last.op = "from_human"
  /\ Len(Tokens(last.arg.s)) = 2
  /\ Hex160Token(Tokens(last.arg.s)[1]) /\ NumericToken(Tokens(last.arg.s)[2])
  /\ ReturnedInvalid

\* a number before a 160-bit hex code, and a lower-case xrp, have been accepted
C13_Accepted ==
  /\ last.op = "from_human" /\ Returned /\ is_valid(last.out.v)
  /\ \/ Len(Tokens(last.arg.s)) = 2 /\ Hex160Token(Tokens(last.arg.s)[2])
     \/ is_native(last.out.v) /\ Tokens(last.arg.s)[1] = <<"5", "x", "r", "p">>

\* the same Amount: is_native and value agree, and for an issued Amount the
\* currency and the issuer do
SameAmount(x, y) ==
  /\ x.is_native = y.is_native
  /\ V_equals(x.value, y.value)
  /\ (x.is_native \/ (x.currency = y.currency /\ x.issuer = y.issuer))

\* C14: JSON round trip.  For every valid Amount a made by from_json,
\* from_human, from_number or arithmetic on such Amounts,
\* Amount.from_json(a.to_json()) returns an Amount with a's is_native, value,
\* currency and issuer.
C14_JsonRoundTrip ==
  (last.op = "round_trip" /\ is_valid(last.recv))
    => (IsOk(last.out) /\ SameAmount(last.out.v, last.recv))


\* the scalar one: Amount.from_json("1")
ScalarOne == FromJson(Str(<<"1">>)).v

\* a call of op on a valid receiver
ValidCall(op) == last.op = op /\ is_valid(last.recv)

\* the result is the receiver's Amount
ReturnsReceiver == IsOk(last.out) /\ SameAmount(last.out.v, last.recv)

AddZero ==
  (ValidCall("add") /\ is_comparable(last.recv, last.arg) /\ is_zero(last.arg))
    => ReturnsReceiver

SubtractSelf ==
  (ValidCall("subtract") /\ last.arg = last.recv)
    => (IsOk(last.out) /\ is_valid(last.out.v) /\ is_zero(last.out.v)
        /\ ~V_isNegative(last.out.v.value))

MultiplyOne == (ValidCall("multiply") /\ last.arg = ScalarOne) => ReturnsReceiver

DivideSelf ==
  (ValidCall("divide") /\ last.arg = last.recv /\ ~is_zero(last.recv))
    => (IsOk(last.out) /\ last.out.v.is_native = last.recv.is_native
        /\ ToText(last.out.v) = <<"1">>)

\* the reciprocal r of x is exact: r * x = 1
ExactReciprocal(x) ==
  ~V_isZero(x) /\ BCmp(BTimes(V_invert(x).n, x.n), TenTo(0)) = 0

InvertTwice ==
  (ValidCall("invert_twice") /\ ~is_zero(last.recv)) => ReturnsReceiver

\* zero, or within the limits of the Amount's kind
InLimits(native, x) == V_isZero(x) \/ InRange(native, x.n)

InvertTwiceExact ==
  (/\ ValidCall("invert_twice")
   /\ ExactReciprocal(last.recv.value)
   /\ InLimits(last.recv.is_native, V_invert(last.recv.value)))
    => ReturnsReceiver

\* C15: arithmetic identities.  On comparable valid Amounts a.add(zero of
\* a's kind) equals a, a.subtract(a) is zero and not negative, a.multiply(one)
\* equals a, a.divide(a) equals one for a non-zero a, and
\* a.invert().invert() equals a for a non-zero a.
C15_ArithmeticIdentities ==
  AddZero /\ SubtractSelf /\ MultiplyOne /\ DivideSelf /\ InvertTwice

\* C15 as the code has it: for a valid Amount a within the limits of its
\* kind the first four identities hold, and a.invert().invert() equals a
\* where the reciprocal of a is exact and within the limits.
C15_IdentitiesExactReciprocal ==
  (/\ last.op \in {"add", "subtract", "multiply", "divide", "invert_twice"}
   /\ InLimits(last.recv.is_native, last.recv.value))
    => (AddZero /\ SubtractSelf /\ MultiplyOne /\ DivideSelf /\ InvertTwiceExact)

C15_Witness ==
  /\ ValidCall("invert_twice")
  /\ ExactReciprocal(last.recv.value)
  /\ InLimits(last.recv.is_native, last.recv.value)
  /\ ~last.recv.is_native
  /\ ReturnsReceiver

\* a native Amount multiplied by the scalar one
C15_NativeTimesOne ==
  /\ ValidCall("multiply")
  /\ last.arg = ScalarOne
  /\ last.recv.is_native /\ ~is_zero(last.recv)
  /\ ReturnsReceiver


\* the operations that return a result and change nothing
FrameOps ==
  {"add", "subtract", "multiply", "divide", "negate", "abs", "invert", "ratio_human",
   "product_human", "applyInterest", "compareTo"}

\* C16: add, subtract, multiply, divide, negate, abs, invert, ratio_human,
\* product_human, applyInterest and compareTo leave the receiver and the
\* argument as they were (value, is_native, currency, issuer), whether they
\* return or throw.
C16_OperandsUnchanged ==
  (ncalls > 2 /\ last.op \in FrameOps)
    => (am["a"] = last.recv /\ (last.arg.cls = "Amount" => am["b"] = last.arg))

\* invert returned another value and the receiver kept its own
C16_Witness ==
  /\ ncalls > 2 /\ last.op = "invert"
  /\ IsOk(last.out) /\ ~V_equals(last.out.v.value, last.recv.value)
  /\ am["a"] = last.recv

\* ratio_human with a native denominator, where numerator._set_value is
\* called: the receiver is as it was
C16_RatioHumanNative ==
  /\ ncalls > 2 /\ last.op = "ratio_human"
  /\ is_valid(last.recv) /\ is_valid(last.arg) /\ last.arg.is_native /\ ~is_zero(last.arg)
  /\ am["a"] = last.recv /\ am["b"] = last.arg

\* the operations called on the object b refers to
ReparseOps ==
  {"parse_json", "parse_value", "set_currency", "set_issuer", "parse_issuer", "parse_human",
   "parse_quality"}

\* C17: each Amount owns its currency and issuer.  After b is made, or is
\* obtained from a by clone, copyTo, from_json(a) or arithmetic, no
\* parse_json, parse_value, set_currency, set_issuer, parse_issuer,
\* parse_human or parse_quality on b changes the currency or the issuer
\* observed through a.
C17_OwnedByValue ==
  (ncalls > 2 /\ last.op \in ReparseOps)
    => (am["a"].currency = last.other.currency /\ am["a"].issuer = last.other.issuer)


\* s decodes as a base-58 seed
IsBase58Seed(j) == j.cls = "string" /\ IsOk(decodeSeed(j.s))

\* s is 32 hex digits
IsHexSeed(j) == j.cls = "string" /\ Len(j.s) = 32 /\ AllChars(j.s, IsHexChar)

\* C18: Seed.parse_json(s) never throws and follows the chain base-58, hex,
\* passphrase: a base-58 seed gives its value and key type, otherwise 32 hex
\* digits give the value, otherwise every non-empty string is a passphrase
\* and gives a valid seed; only the empty string and what is no string give
\* an invalid seed.
C18_SeedFallbackChain ==
  last.op = "Seed.parse_json"
    => /\ IsOk(last.out)
       /\ CASE IsBase58Seed(last.arg) ->
                 /\ last.out.v.value = decodeSeed(last.arg.s).v.bytes
                 /\ last.out.v.type = decodeSeed(last.arg.s).v.type
            [] IsHexSeed(last.arg) ->
                 last.out.v.value = [kind |-> "hex", of |-> ToUpperCase(last.arg.s)]
            [] last.arg.cls = "string" /\ last.arg.s # <<>> ->
                 last.out.v.value = [kind |-> "sha512", of |-> last.arg.s]
            [] OTHER -> ~Seed_is_valid(last.out.v)

\* the key type s alone stands for
KeyTypeOf(j) == IF IsBase58Seed(j) THEN decodeSeed(j.s).v.type ELSE secp256k1

\* C19: the key type of a Seed after a parse_json(s) that gives a valid seed,
\* which to_json and get_key use, depends on s alone: the type of the
\* decoding for a base-58 seed, secp256k1 for hex digits and passphrases,
\* whatever the Seed held before.
C19_SeedTypeFromInput ==
  (last.op = "Seed.parse_json" /\ IsOk(last.out) /\ Seed_is_valid(last.out.v))
    => /\ last.out.v.type = KeyTypeOf(last.arg)
       /\ Seed_to_json(last.out.v).type = KeyTypeOf(last.arg)
       /\ Seed_get_key(last.out.v).v.type = KeyTypeOf(last.arg)

\* the state isConnected() was called in
HasServer(r) == r.server.cls \notin {"undefined", "null"}
HasLedgerIndex(r) ==
  r.ledger_current_index.cls = "number" /\ ~r.ledger_current_index.nan
    /\ r.ledger_current_index.v # 0
StandAlone(r) == r.stand_alone = Bool(TRUE)
CloseAgeAtMost(r, t, ms) ==
  HasServer(r) /\ ~r.server.lastLedgerClose.nan /\ t - r.server.lastLedgerClose.v <= ms

\* C20: isConnected() is true exactly when the remote has a server, a
\* non-zero current ledger index, and runs stand-alone or has a last ledger
\* close at most 30 000 ms old; and it is true as soon as a ledger close is
\* recorded.
C20_IsConnected ==
  /\ last.op = "isConnected"
       => (last.out.v.b <=> /\ HasServer(last.recv)
                            /\ HasLedgerIndex(last.recv)
                            /\ (StandAlone(last.recv)
                                \/ CloseAgeAtMost(last.recv, last.arg.v, 30000)))
  /\ last.op = "ledger_closed" => isConnected(remote, now)

\* connected at the limit: the last ledger close is 30 000 ms old
C20_Witness ==
  /\ last.op = "isConnected" /\ last.out.v.b
  /\ ~StandAlone(last.recv)
  /\ last.arg.v - last.recv.server.lastLedgerClose.v = 30000

\* offline one millisecond later
C20_Offline ==
  /\ last.op = "isConnected" /\ ~last.out.v.b
  /\ HasServer(last.recv) /\ HasLedgerIndex(last.recv)
  /\ ~last.recv.server.lastLedgerClose.nan
  /\ last.arg.v - last.recv.server.lastLedgerClose.v = 30001

\* an Amount that is zero is not negative
NoNegativeZero(a) == is_zero(a) => ~is_negative(a)

\* C21: no Amount made by a constructor or by a sequence of add, subtract,
\* multiply, divide, negate, abs, invert and clone is a negative zero:
\* is_zero() implies that is_negative() is false.
C21_NoNegativeZero == \A s \in Slots : NoNegativeZero(am[s])

====
